---- MODULE Spec2Model ----
(***************************************************************************)
(* A model of the Discord voice bridge: the VoiceBot session manager       *)
(* (src/src/bot/voice_bot.py), and the audio path AudioBuffer /            *)
(* DiscordAudioInterface / GeminiAudioSource (src/src/audio).              *)
(*                                                                         *)
(* Handlers of the bot are asyncio coroutines: a handler runs without      *)
(* interruption up to its next await, where other handlers may run. Each   *)
(* action below is one such uninterrupted segment.                         *)
(***************************************************************************)
EXTENDS Integers, Sequences, FiniteSets, TLC

None == "none"

(***************************************************************************)
(* Bounds of the model.                                                    *)
(***************************************************************************)
\* handlers that may be suspended at an await at the same time
MaxTasks == 2
\* voice clients and agents created in one run
MaxSessions == 2

Tasks == 1..MaxTasks
VcIds == 1..MaxSessions
AgentIds == 1..MaxSessions

(***************************************************************************)
(* The Discord world the bot lives in: two guilds, guild g1 with two voice *)
(* channels, two human members, and possibly another bot sitting in c1.    *)
(***************************************************************************)
Guilds == {"g1", "g2"}
Channels == {"c1", "c2", "c3"}
Members == {"m1", "m2"}
GuildOf(ch) == IF ch = "c3" THEN "g2" ELSE "g1"

\* The worlds a run starts in: the channels and members there are, the
\* channels another bot sits in, and the bot's configuration
\* (auto_join, greeting_enabled).
Worlds ==
    { <<{"c1"}, {"m1", "m2"}, {}, TRUE, TRUE>>,
      <<{"c1", "c2"}, {"m1"}, {}, TRUE, TRUE>>,
      <<{"c1", "c3"}, {"m1"}, {"c1"}, TRUE, TRUE>>,
      <<{"c1"}, {"m1", "m2"}, {}, TRUE, FALSE>>,
      <<{"c1"}, {"m1"}, {}, FALSE, TRUE>> }

VARIABLES
    \* ---- Discord's side
    channels,       \* the voice channels that exist (fixed)
    members,        \* the human members there are (fixed)
    loc,            \* loc[m]: the voice channel member m is in, or None
    foreignBots,    \* channels in which some other bot sits (fixed)
    guildVoice,     \* dict: guild -> the voice client discord.py holds for it
    vcState,        \* vcState[v]: "free" (not made yet) | "connecting" | "connected" |
                    \* "disconnecting" | "closed"
    vcChannel,      \* vcChannel[v]: the channel voice client v was made for
    \* ---- VoiceBot fields
    auto_join,
    greeting_enabled,
    voice_connections,      \* dict: guild -> voice client    (self._voice_connections)
    active_conversations,   \* dict: guild -> agent           (self._active_conversations)
    greeted_users,          \* set of member ids                (self._greeted_users)
    \* ---- GeminiLiveAgent objects
    agentState,     \* agentState[a]: "free" (not constructed yet) | "starting" | "active" |
                    \* "failed" (start_session returned False) | "ended"
    agentGuild,     \* the guild whose join created agent a
    \* ---- suspended handlers
    tasks,
    \* ---- observation
    outcome,        \* what the last step let its caller or the member see
    \* ---- an AudioBuffer used on its own (part 2)
    buf,                \* the buffer: [buffer, closed, event, scheduled]
    buf_closer,         \* a thread is inside close(), between its two statements
    buf_waiter,         \* a coroutine is inside get_async(), waiting for the event
    buf_last,           \* what the last call on the buffer was and found
    \* ---- one DiscordAudioInterface and the GeminiAudioSource playing it (part 3)
    is_running,         \* DiscordAudioInterface._is_running
    input_callback,     \* DiscordAudioInterface._input_callback is set
    output_buffer,      \* DiscordAudioInterface._output_buffer, an AudioBuffer
    input_buffer,       \* DiscordAudioInterface._input_buffer, an AudioBuffer
    is_playing,         \* GeminiAudioSource._is_playing
    remaining_data,     \* GeminiAudioSource._remaining_data
    reader,             \* the player thread inside read(): its position and local data
    closer,             \* stop() is inside _output_buffer.close(), between its two statements
    interrupted,        \* interrupt() was called, and neither output() nor read() since
    outputs,            \* the number of chunks output() has put so far
    writer,             \* an output() called from a thread of its own, in flight
    conv_pcm,           \* the audio the transforms are applied to next
    conv_calls,         \* the calls of the transforms so far, oldest first
    ws,                 \* ElevenLabsWebSocketClient: its fields, its socket, its receive task
    ws_calls,           \* the connect() and disconnect() calls made on it and in flight
    ws_fired,           \* how often the disconnected callback has fired since the
                        \* connection was established (before: since construction)
    ws_last,            \* what the last step of the client did
    ga,                 \* GeminiLiveAgent: its fields and its audio interface
    ga_task,            \* the task running _run_session: where it is, cancellation due
    ga_loops,           \* the tasks running _send_loop and _receive_loop
    ga_calls,           \* the start_session() and end_session() calls made and in flight
    ga_queue,           \* _audio_send_queue, and how many chunks were put in it so far
    last                \* what the last audio operation did and returned

botVars == <<channels, members, loc, foreignBots, guildVoice, vcState, vcChannel, auto_join,
             greeting_enabled, voice_connections, active_conversations,
             greeted_users, agentState, agentGuild, tasks, outcome>>
bufVars == <<buf, buf_closer, buf_waiter, buf_last>>
pathVars == <<is_running, input_callback, output_buffer, input_buffer, is_playing,
              remaining_data, reader, closer, interrupted, outputs, writer, last>>
convVars == <<conv_pcm, conv_calls>>
wsVars == <<ws, ws_calls, ws_fired, ws_last>>
gaVars == <<ga, ga_task, ga_loops, ga_calls, ga_queue>>
audioVars == <<bufVars, pathVars, convVars, wsVars, gaVars>>
vars == <<botVars, audioVars>>


(***************************************************************************)
(* PART 1.  VoiceBot: the session manager.                                 *)
(***************************************************************************)
\* a Python dict: d[k] = v, d.pop(k), k in d
DictSet(d, k, v) == [x \in DOMAIN d \cup {k} |-> IF x = k THEN v ELSE d[x]]
DictPop(d, k) == [x \in DOMAIN d \ {k} |-> d[x]]
Has(d, k) == k \in DOMAIN d
EmptyDict == [x \in {} |-> 0]

\* a handler's local variables vc and agent hold 0 while not assigned; vc0 is
\* the connection of the session the handler found registered when it began
Idle == [kind |-> "idle", pc |-> "idle", ch |-> None, m |-> None,
         vc |-> 0, agent |-> 0, vc0 |-> 0]
NoOutcome == "none"

FreeTasks == {t \in Tasks : tasks[t].kind = "idle"}
FreeVcs == {v \in VcIds : vcState[v] = "free"}
FreeAgents == {a \in AgentIds : agentState[a] = "free"}
Lowest(S) == CHOOSE x \in S : \A y \in S : x <= y

\* channel.members without the bot itself: the humans and any other bot
OthersIn(ch, where) ==
    {m \in Members : where[m] = ch} \cup (IF ch \in foreignBots THEN {"otherbot"} ELSE {})

\* voice_bot.py line 234: channel.members == [self.user] or len(channel.members) == 0
ChannelEmptyExceptBot(ch, where) == OthersIn(ch, where) = {}

\* voice_bot.py lines 203-205: already connected, and to this very channel
AlreadyInChannel(ch) ==
    /\ Has(voice_connections, GuildOf(ch))
    /\ vcChannel[voice_connections[GuildOf(ch)]] = ch

\* discord.py's channel.connect() raises ClientException when the guild already
\* has a voice client (the case join_voice answers "I'm already in a voice channel!").
\* A connect() that never refused would let a second join through.
NeverRefuses(g) == FALSE
ConnectRefuses(g) == Has(guildVoice, g)

\* GeminiLiveAgent.send_text puts the text on the session only if the agent
\* is active and has a session
SendTextReaches(a) == agentState[a] = "active"

(* ---- _join_voice_channel ---------------------------------------------- *)

\* channel.connect(): the part before its await. Discord registers the new
\* voice client for the guild at once.
ConnectBegin(t, kind, m, ch) ==
    /\ ~ConnectRefuses(GuildOf(ch))
    /\ FreeVcs # {}
    /\ LET v == Lowest(FreeVcs) IN
        /\ vcState' = [vcState EXCEPT ![v] = "connecting"]
        /\ vcChannel' = [vcChannel EXCEPT ![v] = ch]
        /\ guildVoice' = DictSet(guildVoice, GuildOf(ch), v)
        /\ tasks' = [tasks EXCEPT ![t] = [kind |-> kind, pc |-> "connect", ch |-> ch,
                                           m |-> m, vc |-> v, agent |-> 0,
                                           vc0 |-> 0]]
    /\ outcome' = NoOutcome
    /\ UNCHANGED <<voice_connections, active_conversations, greeted_users,
                   agentState, agentGuild>>

\* channel.connect() raised ClientException: _join_voice_channel re-raises
ConnectRefused(kind, m, ch) ==
    /\ ConnectRefuses(GuildOf(ch))
    /\ outcome' = (IF kind = "join_cmd" THEN "reply_already" ELSE "raised")
    /\ UNCHANGED <<guildVoice, vcState, vcChannel, voice_connections,
                   active_conversations, greeted_users, agentState, agentGuild,
                   tasks>>

\* what the caller of _join_voice_channel sees when it raises
Raised(kind) == IF kind = "join_cmd" THEN "reply_failed" ELSE "raised"

\* lines 253-274: connect returned; register the connection, build the agent,
\* call start_session() up to its await
ConnectOk(t) ==
    /\ tasks[t].pc = "connect"
    /\ FreeAgents # {}
    /\ LET v == tasks[t].vc
           g == GuildOf(tasks[t].ch)
           a == Lowest(FreeAgents) IN
        /\ vcState' = [vcState EXCEPT ![v] = "connected"]
        /\ voice_connections' = DictSet(voice_connections, g, v)
        /\ agentState' = [agentState EXCEPT ![a] = "starting"]
        /\ agentGuild' = [agentGuild EXCEPT ![a] = g]
        /\ tasks' = [tasks EXCEPT ![t].pc = "start", ![t].agent = a]
    /\ outcome' = NoOutcome
    /\ UNCHANGED <<channels, members, loc, foreignBots, guildVoice, vcChannel, auto_join, greeting_enabled,
                   active_conversations, greeted_users>>
    /\ UNCHANGED audioVars

\* lines 253-267: connect returned, the connection is registered, and the
\* GeminiLiveAgent constructor raises
AgentCreationFails(t) ==
    /\ tasks[t].pc = "connect"
    /\ LET v == tasks[t].vc
           g == GuildOf(tasks[t].ch) IN
        /\ vcState' = [vcState EXCEPT ![v] = "connected"]
        /\ voice_connections' = DictSet(voice_connections, g, v)
        /\ outcome' = Raised(tasks[t].kind)
    /\ tasks' = [tasks EXCEPT ![t] = Idle]
    /\ UNCHANGED <<channels, members, loc, foreignBots, guildVoice, vcChannel, auto_join, greeting_enabled,
                   active_conversations, greeted_users, agentState, agentGuild>>
    /\ UNCHANGED audioVars

\* channel.connect() raises (timeout): Discord drops the voice client again
ConnectFails(t) ==
    /\ tasks[t].pc = "connect"
    /\ LET v == tasks[t].vc
           g == GuildOf(tasks[t].ch) IN
        /\ vcState' = [vcState EXCEPT ![v] = "closed"]
        /\ vcChannel' = [vcChannel EXCEPT ![v] = None]
        /\ guildVoice' = DictPop(guildVoice, g)
        /\ outcome' = Raised(tasks[t].kind)
    /\ tasks' = [tasks EXCEPT ![t] = Idle]
    /\ UNCHANGED <<channels, members, loc, foreignBots, auto_join, greeting_enabled,
                   voice_connections, active_conversations, greeted_users,
                   agentState, agentGuild>>
    /\ UNCHANGED audioVars

\* lines 274-301: start_session() returned `started`; its result is not looked
\* at. The agent is registered, playback starts (vc.play raises when the voice
\* client is no longer connected) and _join_voice_channel returns.
StartReturns(t, started) ==
    /\ tasks[t].pc = "start"
    /\ LET v == tasks[t].vc
           a == tasks[t].agent
           g == GuildOf(tasks[t].ch)
           playRaises == vcState[v] # "connected"
       IN
        /\ agentState' = [agentState EXCEPT ![a] = IF started THEN "active" ELSE "failed"]
        /\ active_conversations' = DictSet(active_conversations, g, a)
        /\ outcome' = (IF playRaises THEN Raised(tasks[t].kind)
                       ELSE IF tasks[t].kind = "join_cmd" THEN "reply_joined"
                       ELSE "returned")
        /\ tasks' = [tasks EXCEPT ![t] =
                        IF playRaises \/ tasks[t].kind = "join_cmd" THEN Idle
                        ELSE [@ EXCEPT !.pc = "sleep"]]
    /\ UNCHANGED <<channels, members, loc, foreignBots, guildVoice, vcState, vcChannel, auto_join,
                   greeting_enabled, voice_connections, greeted_users, agentGuild>>
    /\ UNCHANGED audioVars

StartOk(t) == StartReturns(t, TRUE)
StartTimesOut(t) == StartReturns(t, FALSE)


(* ---- _greet_user -------------------------------------------------------- *)

\* lines 339-348: _greet_user up to the await inside agent.send_text()
GreetUser(t, m, ch) ==
    LET g == GuildOf(ch)
        a == active_conversations[g] IN
    IF ~Has(active_conversations, g)
    THEN /\ tasks' = [tasks EXCEPT ![t] = Idle]
         /\ outcome' = "no_conversation"
    ELSE /\ tasks' = [tasks EXCEPT ![t] = [kind |-> "user_join", pc |-> "send",
                                            ch |-> ch, m |-> m, vc |-> 0,
                                            agent |-> 0, vc0 |-> 0]]
         /\ outcome' = IF SendTextReaches(a) THEN "greeting_sent" ELSE "greeting_lost"

\* lines 349-351: send_text() returned; the member is marked greeted
GreetDone(t) ==
    /\ tasks[t].pc = "send"
    /\ greeted_users' = greeted_users \cup {tasks[t].m}
    /\ tasks' = [tasks EXCEPT ![t] = Idle]
    /\ outcome' = "greeted"
    /\ UNCHANGED <<channels, members, loc, foreignBots, guildVoice, vcState, vcChannel, auto_join,
                   greeting_enabled, voice_connections, active_conversations,
                   agentState, agentGuild>>
    /\ UNCHANGED audioVars

\* lines 214-219: the settle delay is over; greet if greeting is enabled
Wake(t) ==
    /\ tasks[t].pc = "sleep"
    /\ IF greeting_enabled
       THEN GreetUser(t, tasks[t].m, tasks[t].ch)
       ELSE /\ tasks' = [tasks EXCEPT ![t] = Idle]
            /\ outcome' = "greeting_off"
    /\ UNCHANGED <<channels, members, loc, foreignBots, guildVoice, vcState, vcChannel, auto_join,
                   greeting_enabled, voice_connections, active_conversations,
                   greeted_users, agentState, agentGuild>>
    /\ UNCHANGED audioVars

(* ---- on_voice_state_update: a member joins ------------------------------ *)

Enters(m, ch) ==
    /\ loc[m] = None
    /\ loc' = [loc EXCEPT ![m] = ch]
    /\ UNCHANGED <<channels, members, foreignBots, auto_join, greeting_enabled>>
    /\ UNCHANGED audioVars

\* lines 173-177 with auto_join off: the event is only logged
UserJoinIgnored(m, ch) ==
    /\ Enters(m, ch)
    /\ ~auto_join
    /\ outcome' = "ignored"
    /\ UNCHANGED <<guildVoice, vcState, vcChannel, voice_connections,
                   active_conversations, greeted_users, agentState, agentGuild,
                   tasks>>

\* lines 203-209: the bot is already in this channel; greet only
UserJoinSameChannel(m, ch) ==
    /\ Enters(m, ch)
    /\ auto_join
    /\ AlreadyInChannel(ch)
    /\ IF greeting_enabled /\ m \notin greeted_users
       THEN /\ FreeTasks # {}
            /\ GreetUser(Lowest(FreeTasks), m, ch)
       ELSE /\ UNCHANGED tasks
            /\ outcome' = "no_greeting"
    /\ UNCHANGED <<guildVoice, vcState, vcChannel, voice_connections,
                   active_conversations, greeted_users, agentState, agentGuild>>

\* lines 211-212: otherwise join the channel
UserJoinConnects(m, ch) ==
    /\ Enters(m, ch)
    /\ auto_join
    /\ ~AlreadyInChannel(ch)
    /\ FreeTasks # {}
    /\ ConnectBegin(Lowest(FreeTasks), "user_join", m, ch)

UserJoinRefused(m, ch) ==
    /\ Enters(m, ch)
    /\ auto_join
    /\ ~AlreadyInChannel(ch)
    /\ ConnectRefused("user_join", m, ch)

(* ---- the join command ---------------------------------------------------- *)

\* lines 97-99
JoinCmdNoVoice(m) ==
    /\ loc[m] = None
    /\ outcome' = "reply_no_voice"
    /\ UNCHANGED <<channels, members, loc, foreignBots, guildVoice, vcState, vcChannel, auto_join,
                   greeting_enabled, voice_connections, active_conversations,
                   greeted_users, agentState, agentGuild, tasks>>
    /\ UNCHANGED audioVars

\* lines 101-103
JoinCmdConnects(m) ==
    /\ loc[m] # None
    /\ FreeTasks # {}
    /\ ConnectBegin(Lowest(FreeTasks), "join_cmd", m, loc[m])
    /\ UNCHANGED <<channels, members, loc, foreignBots, auto_join, greeting_enabled>>
    /\ UNCHANGED audioVars

\* lines 105-106
JoinCmdRefused(m) ==
    /\ loc[m] # None
    /\ ConnectRefused("join_cmd", m, loc[m])
    /\ UNCHANGED <<channels, members, loc, foreignBots, auto_join, greeting_enabled>>
    /\ UNCHANGED audioVars


(* ---- _leave_voice_channel ------------------------------------------------ *)

\* a session of guild g is registered and its connection is in channel ch
SessionIn(g, ch) ==
    /\ Has(active_conversations, g)
    /\ Has(voice_connections, g)
    /\ vcChannel[voice_connections[g]] = ch

\* the handler is over: _handle_user_leave discards the member (line 239),
\* the leave command only replies (line 116). Without the discard a member
\* who left would stay marked as greeted.
LeaveFinishedKeepsGreeted(rec) ==
    /\ outcome' = (IF rec.kind = "leave_cmd" THEN "reply_left"
                   ELSE IF rec.vc0 # 0 THEN "session_closed" ELSE "left")
    /\ UNCHANGED <<greeted_users, agentState, agentGuild>>
LeaveFinished(rec) ==
    /\ outcome' = (IF rec.kind = "leave_cmd" THEN "reply_left"
                   ELSE IF rec.vc0 # 0 THEN "session_closed" ELSE "left")
    /\ IF rec.kind = "user_leave"
       THEN greeted_users' = greeted_users \ {rec.m}
       ELSE UNCHANGED greeted_users
    /\ UNCHANGED <<agentState, agentGuild>>

\* lines 320-324: pop the voice connection and disconnect it, up to the await
LeaveVoice(t, rec) ==
    LET g == GuildOf(rec.ch)
        v == voice_connections[g] IN
    IF Has(voice_connections, g)
    THEN /\ voice_connections' = DictPop(voice_connections, g)
         /\ IF vcState[v] = "connected"
            THEN /\ vcState' = [vcState EXCEPT ![v] = "disconnecting"]
                 /\ tasks' = [tasks EXCEPT ![t] = [rec EXCEPT !.pc = "disconnecting", !.vc = v]]
                 /\ outcome' = NoOutcome
                 /\ UNCHANGED <<greeted_users, agentState, agentGuild>>
            ELSE /\ vcState' = vcState
                 /\ tasks' = [tasks EXCEPT ![t] = Idle]
                 /\ LeaveFinished([rec EXCEPT !.vc = v])
    ELSE /\ UNCHANGED <<voice_connections, vcState>>
         /\ tasks' = [tasks EXCEPT ![t] = Idle]
         /\ LeaveFinished(rec)

\* lines 314-318: pop the agent and call end_session(), which clears _is_active
\* at once and then awaits the session task; with no agent go on to the voice
\* connection
LeaveBegin(t, rec) ==
    LET g == GuildOf(rec.ch)
        a == active_conversations[g] IN
    IF Has(active_conversations, g)
    THEN /\ active_conversations' = DictPop(active_conversations, g)
         /\ agentState' = [agentState EXCEPT ![a] = "ended"]
         /\ tasks' = [tasks EXCEPT ![t] = [rec EXCEPT !.pc = "ending", !.agent = a]]
         /\ outcome' = NoOutcome
         /\ UNCHANGED <<voice_connections, vcState, greeted_users, agentGuild>>
    ELSE /\ UNCHANGED active_conversations
         /\ LeaveVoice(t, rec)

\* end_session() returned
LeaveEnded(t) ==
    /\ tasks[t].pc = "ending"
    /\ LeaveVoice(t, tasks[t])
    /\ UNCHANGED <<channels, members, loc, foreignBots, guildVoice, vcChannel, auto_join,
                   greeting_enabled, active_conversations>>
    /\ UNCHANGED audioVars

\* vc.disconnect() returned: Discord has dropped the guild's voice client
LeaveDisconnected(t) ==
    /\ tasks[t].pc = "disconnecting"
    /\ LET v == tasks[t].vc
           g == GuildOf(tasks[t].ch) IN
        /\ vcState' = [vcState EXCEPT ![v] = "closed"]
        /\ vcChannel' = [vcChannel EXCEPT ![v] = None]
        /\ guildVoice' = IF Has(guildVoice, g) /\ guildVoice[g] = v
                         THEN DictPop(guildVoice, g) ELSE guildVoice
    /\ tasks' = [tasks EXCEPT ![t] = Idle]
    /\ LeaveFinished(tasks[t])
    /\ UNCHANGED <<channels, members, loc, foreignBots, auto_join, greeting_enabled,
                   voice_connections, active_conversations>>
    /\ UNCHANGED audioVars

(* ---- on_voice_state_update: a member leaves or moves --------------------- *)

Exits(m) ==
    /\ loc[m] # None
    /\ loc' = [loc EXCEPT ![m] = None]
    /\ UNCHANGED <<channels, members, foreignBots, auto_join, greeting_enabled, guildVoice,
                   vcChannel>>
    /\ UNCHANGED audioVars

LeaveRecord(kind, m, ch) ==
    [kind |-> kind, pc |-> "begin", ch |-> ch, m |-> m, vc |-> 0, agent |-> 0,
     vc0 |-> IF SessionIn(GuildOf(ch), ch) THEN voice_connections[GuildOf(ch)] ELSE 0]

\* lines 231-239 when somebody else is still in the channel
UserLeaveOthersRemain(m) ==
    /\ Exits(m)
    /\ ~ChannelEmptyExceptBot(loc[m], loc')
    /\ greeted_users' = greeted_users \ {m}
    /\ outcome' = "stayed"
    /\ UNCHANGED <<vcState, voice_connections, active_conversations, agentState,
                   agentGuild, tasks>>

\* lines 231-236 when the channel is empty but for the bot
UserLeaveChannelEmpty(m) ==
    /\ Exits(m)
    /\ ChannelEmptyExceptBot(loc[m], loc')
    /\ FreeTasks # {}
    /\ LeaveBegin(Lowest(FreeTasks), LeaveRecord("user_leave", m, loc[m]))

\* a move handled the way a leave with others remaining is (line 239): the
\* member is forgotten as greeted
UserMovesAsLeave(m, ch) ==
    /\ loc[m] # None
    /\ ch # loc[m]
    /\ GuildOf(ch) = GuildOf(loc[m])
    /\ loc' = [loc EXCEPT ![m] = ch]
    /\ outcome' = "moved"
    /\ greeted_users' = greeted_users \ {m}
    /\ UNCHANGED <<channels, members, foreignBots, guildVoice, vcState, vcChannel, auto_join,
                   greeting_enabled, voice_connections, active_conversations,
                   agentState, agentGuild, tasks>>
    /\ UNCHANGED audioVars

\* lines 185-188: a move between channels is only logged
UserMoves(m, ch) ==
    /\ loc[m] # None
    /\ ch # loc[m]
    /\ GuildOf(ch) = GuildOf(loc[m])
    /\ loc' = [loc EXCEPT ![m] = ch]
    /\ outcome' = "moved"
    /\ UNCHANGED <<channels, members, foreignBots, guildVoice, vcState, vcChannel, auto_join,
                   greeting_enabled, voice_connections, active_conversations,
                   greeted_users, agentState, agentGuild, tasks>>
    /\ UNCHANGED audioVars

(* ---- the leave command --------------------------------------------------- *)

\* lines 114-116. The record keeps the channel of the connection.
LeaveCmd(g) ==
    /\ Has(voice_connections, g)
    /\ FreeTasks # {}
    /\ LeaveBegin(Lowest(FreeTasks),
                  LeaveRecord("leave_cmd", None, vcChannel[voice_connections[g]]))
    /\ UNCHANGED <<channels, members, loc, foreignBots, guildVoice, vcChannel, auto_join,
                   greeting_enabled>>
    /\ UNCHANGED audioVars

\* lines 117-118
LeaveCmdNotConnected(g) ==
    /\ ~Has(voice_connections, g)
    /\ outcome' = "reply_not_in_voice"
    /\ UNCHANGED <<channels, members, loc, foreignBots, guildVoice, vcState, vcChannel, auto_join,
                   greeting_enabled, voice_connections, active_conversations,
                   greeted_users, agentState, agentGuild, tasks>>
    /\ UNCHANGED audioVars


(* ---- the bot as a whole -------------------------------------------------- *)

BotInit(w) ==
    /\ channels = w[1]
    /\ members = w[2]
    /\ foreignBots = w[3]
    /\ auto_join = w[4]
    /\ greeting_enabled = w[5]
    /\ loc = [m \in Members |-> None]
    /\ guildVoice = EmptyDict
    /\ vcState = [v \in VcIds |-> "free"]
    /\ vcChannel = [v \in VcIds |-> None]
    /\ voice_connections = EmptyDict
    /\ active_conversations = EmptyDict
    /\ greeted_users = {}
    /\ agentState = [a \in AgentIds |-> "free"]
    /\ agentGuild = [a \in AgentIds |-> None]
    /\ tasks = [t \in Tasks |-> Idle]
    /\ outcome = NoOutcome

JoinNext ==
    \/ \E m \in members, ch \in channels : UserJoinIgnored(m, ch)
    \/ \E m \in members, ch \in channels : UserJoinSameChannel(m, ch)
    \/ \E m \in members, ch \in channels : UserJoinConnects(m, ch)
    \/ \E m \in members, ch \in channels : UserJoinRefused(m, ch)
    \/ \E m \in members : JoinCmdNoVoice(m)
    \/ \E m \in members : JoinCmdConnects(m)
    \/ \E m \in members : JoinCmdRefused(m)
    \/ \E t \in Tasks : ConnectOk(t)
    \/ \E t \in Tasks : AgentCreationFails(t)
    \/ \E t \in Tasks : ConnectFails(t)
    \/ \E t \in Tasks : StartOk(t)
    \/ \E t \in Tasks : StartTimesOut(t)
    \/ \E t \in Tasks : Wake(t)
    \/ \E t \in Tasks : GreetDone(t)

LeaveNext ==
    \/ \E m \in members : UserLeaveOthersRemain(m)
    \/ \E m \in members : UserLeaveChannelEmpty(m)
    \/ \E m \in members, ch \in channels : UserMoves(m, ch)
    \/ \E g \in {GuildOf(ch) : ch \in channels} : LeaveCmd(g)
    \/ \E g \in {GuildOf(ch) : ch \in channels} : LeaveCmdNotConnected(g)
    \/ \E t \in Tasks : LeaveEnded(t)
    \/ \E t \in Tasks : LeaveDisconnected(t)

(***************************************************************************)
(* PART 2.  AudioBuffer (src/src/audio/audio_buffer.py).                   *)
(*                                                                         *)
(* A string of bytes is kept as its runs: <<b, n>> stands for n bytes of   *)
(* value b, a string is a sequence of runs in which neighbours differ and  *)
(* every n is positive, and b"" is <<>>.                                   *)
(***************************************************************************)
\* capacity of the buffers of the model (the program builds them with 500)
MaxSize == 2

\* bytes([b]) * n
Bytes(b, n) == IF n = 0 THEN <<>> ELSE << <<b, n>> >>

RECURSIVE Length(_)
\* len(data)
Length(data) == IF data = <<>> THEN 0 ELSE data[1][2] + Length(Tail(data))

\* d + e
Concat(d, e) ==
    IF d = <<>> THEN e
    ELSE IF e = <<>> THEN d
    ELSE IF d[Len(d)][1] = e[1][1]
         THEN SubSeq(d, 1, Len(d) - 1) \o << <<e[1][1], d[Len(d)][2] + e[1][2]>> >> \o Tail(e)
         ELSE d \o e

RECURSIVE Take(_, _)
\* data[:n]
Take(data, n) ==
    IF n = 0 \/ data = <<>> THEN <<>>
    ELSE IF data[1][2] <= n THEN <<data[1]>> \o Take(Tail(data), n - data[1][2])
    ELSE << <<data[1][1], n>> >>

RECURSIVE Drop(_, _)
\* data[n:]
Drop(data, n) ==
    IF n = 0 \/ data = <<>> THEN data
    ELSE IF data[1][2] <= n THEN Drop(Tail(data), n - data[1][2])
    ELSE << <<data[1][1], data[1][2] - n>> >> \o Tail(data)

RECURSIVE Join(_)
\* b"".join(chunks)
Join(chunks) == IF chunks = <<>> THEN <<>> ELSE Concat(chunks[1], Join(Tail(chunks)))

\* AudioBuffer(max_size): an empty open buffer. `scheduled` says that a call of
\* _event.set has been handed to the event loop and has not run yet.
NewAudioBuffer == [buffer |-> <<>>, closed |-> FALSE, event |-> FALSE, scheduled |-> FALSE]

\* deque(maxlen).append(x). A lengthening append would make an unbounded
\* deque of it; the guard of DequeAppend is what keeps the deque at maxlen.
GrowingAppend(q, x, maxlen) == Append(q, x)
DequeAppend(q, x, maxlen) ==
    IF Len(q) >= maxlen THEN Append(Tail(q), x) ELSE Append(q, x)

\* a put() that does not look at the closed flag
PutWhenClosed(b, data, in_loop) ==
    [b EXCEPT !.buffer = DequeAppend(@, data, MaxSize),
              !.scheduled = @ \/ in_loop]

\* put(data): under the lock; in_loop says whether the calling thread runs an
\* event loop (asyncio.get_running_loop() does not raise)
AudioBuffer_put(b, data, in_loop) ==
    IF b.closed THEN b
    ELSE [b EXCEPT !.buffer = DequeAppend(@, data, MaxSize),
                   !.scheduled = @ \/ in_loop]

\* get(): the buffer afterwards; it returns Head(b.buffer) or, when the
\* buffer is empty, None
AudioBuffer_get(b) == IF b.buffer # <<>> THEN [b EXCEPT !.buffer = Tail(@)] ELSE b

\* a get_all() that reads the chunks and leaves them in the buffer
PeekAll(b) == b

\* get_all(): the buffer afterwards; it returns Join(b.buffer)
AudioBuffer_get_all(b) == [b EXCEPT !.buffer = <<>>]

\* clear(). Leaving the chunks in place would make interrupt() a no-op.
KeepChunks(b) == [b EXCEPT !.event = FALSE]
AudioBuffer_clear(b) == [b EXCEPT !.buffer = <<>>, !.event = FALSE]

\* close(), first statement: self._closed = True, outside the lock
AudioBuffer_mark_closed(b) == [b EXCEPT !.closed = TRUE]

\* get_async(): self._event.clear() after the wait
AudioBuffer_event_clear(b) == [b EXCEPT !.event = FALSE]

\* the event loop runs the scheduled _event.set
AudioBuffer_event_set(b) == [b EXCEPT !.event = TRUE, !.scheduled = FALSE]

(* ---- calls on a buffer of its own ---------------------------------------- *)

\* the chunks put into the buffer: a, b, c
BufferChunks == {Bytes(1, 2), Bytes(2, 2), Bytes(3, 2)}

BufCall(op, data, returned) ==
    [op |-> op, before |-> buf.buffer, was_closed |-> buf.closed,
     data |-> data, returned |-> returned]

BufPut(data, in_loop) ==
    /\ buf' = AudioBuffer_put(buf, data, in_loop)
    /\ buf_last' = BufCall("put", data, <<>>)
    /\ UNCHANGED <<buf_closer, buf_waiter, botVars, pathVars, convVars, wsVars, gaVars>>

BufGet ==
    /\ buf' = AudioBuffer_get(buf)
    /\ buf_last' = IF buf.buffer # <<>> THEN BufCall("get", <<>>, Head(buf.buffer))
                   ELSE BufCall("get_none", <<>>, <<>>)
    /\ UNCHANGED <<buf_closer, buf_waiter, botVars, pathVars, convVars, wsVars, gaVars>>

BufGetAll ==
    /\ buf' = AudioBuffer_get_all(buf)
    /\ buf_last' = BufCall("get_all", <<>>, Join(buf.buffer))
    /\ UNCHANGED <<buf_closer, buf_waiter, botVars, pathVars, convVars, wsVars, gaVars>>

BufClear ==
    /\ buf' = AudioBuffer_clear(buf)
    /\ buf_last' = BufCall("clear", <<>>, <<>>)
    /\ UNCHANGED <<buf_closer, buf_waiter, botVars, pathVars, convVars, wsVars, gaVars>>

\* close() up to the lock of its clear()
BufCloseBegin ==
    /\ ~buf_closer
    /\ buf' = AudioBuffer_mark_closed(buf)
    /\ buf_closer' = TRUE
    /\ buf_last' = BufCall("close_begin", <<>>, <<>>)
    /\ UNCHANGED <<buf_waiter, botVars, pathVars, convVars, wsVars, gaVars>>

\* close(): its clear(), and it returns
BufCloseEnd ==
    /\ buf_closer
    /\ buf' = AudioBuffer_clear(buf)
    /\ buf_closer' = FALSE
    /\ buf_last' = BufCall("close", <<>>, <<>>)
    /\ UNCHANGED <<buf_waiter, botVars, pathVars, convVars, wsVars, gaVars>>

BufEventSet ==
    /\ buf.scheduled
    /\ buf' = AudioBuffer_event_set(buf)
    /\ buf_last' = BufCall("event_set", <<>>, <<>>)
    /\ UNCHANGED <<buf_closer, buf_waiter, botVars, pathVars, convVars, wsVars, gaVars>>

\* get_async(timeout) up to its await: the coroutine waits for the event
BufGetAsyncBegin ==
    /\ ~buf_waiter
    /\ buf_waiter' = TRUE
    /\ buf_last' = BufCall("get_async_begin", <<>>, <<>>)
    /\ UNCHANGED <<buf, buf_closer, botVars, pathVars, convVars, wsVars, gaVars>>

\* get_async(): the event is set, so the wait ends; _event.clear(), return get()
BufGetAsyncWoken ==
    /\ buf_waiter
    /\ buf.event
    /\ buf' = AudioBuffer_get(AudioBuffer_event_clear(buf))
    /\ buf_waiter' = FALSE
    /\ buf_last' = BufCall("get_async_woken", <<>>,
                           IF buf.buffer # <<>> THEN Head(buf.buffer) ELSE <<>>)
    /\ UNCHANGED <<buf_closer, botVars, pathVars, convVars, wsVars, gaVars>>

\* get_async(): asyncio.TimeoutError after `timeout` seconds; return get()
BufGetAsyncTimeout ==
    /\ buf_waiter
    /\ ~buf.event
    /\ buf' = AudioBuffer_get(buf)
    /\ buf_waiter' = FALSE
    /\ buf_last' = BufCall("get_async_timeout", <<>>,
                           IF buf.buffer # <<>> THEN Head(buf.buffer) ELSE <<>>)
    /\ UNCHANGED <<buf_closer, botVars, pathVars, convVars, wsVars, gaVars>>

BufInit ==
    /\ buf = NewAudioBuffer
    /\ buf_closer = FALSE
    /\ buf_waiter = FALSE
    /\ buf_last = BufCall("none", <<>>, <<>>)

BufNext ==
    \/ \E data \in BufferChunks, in_loop \in BOOLEAN : BufPut(data, in_loop)
    \/ BufGet
    \/ BufGetAll
    \/ BufClear
    \/ BufCloseBegin
    \/ BufCloseEnd
    \/ BufEventSet
    \/ BufGetAsyncBegin
    \/ BufGetAsyncWoken
    \/ BufGetAsyncTimeout

(***************************************************************************)
(* PART 3.  DiscordAudioInterface and GeminiAudioSource                    *)
(* (src/src/audio/discord_audio_interface.py, discord_audio_source.py).    *)
(*                                                                         *)
(* The interface is driven from the event loop (start, stop, output,       *)
(* interrupt); read() runs on the voice player's thread, so other calls    *)
(* may run between two of its accesses to the buffer.                      *)
(***************************************************************************)
\* GeminiAudioSource.FRAME_SIZE
FRAME_SIZE == 3840

\* chunks that output() puts in one run
MaxOutputs == 3

\* the audio the agent hands to output(): nothing, an odd number of bytes, and
\* chunks that convert to half a frame and a little (1924 bytes) and to two
\* frames and a little (7996). All bytes of a chunk are equal.
GeminiChunks == {Bytes(1, 0), Bytes(1, 3), Bytes(1, 482), Bytes(2, 2000)}

\* struct.unpack(f"<{len(audio) // 2}h", audio) raises struct.error unless
\* the buffer holds exactly that many 16-bit samples
UnpackRaises(audio) == Length(audio) # 2 * (Length(audio) \div 2)

\* _convert_to_discord_format for audio whose bytes are all equal: then all
\* samples are equal, and so is every sample interpolated between two of them
convert_to_discord_format(audio) ==
    IF Length(audio) = 0 THEN <<>>
    ELSE LET num_samples == Length(audio) \div 2
             upsampled == (num_samples - 1) * 2 + 1
             stereo == upsampled * 2
         IN Bytes(audio[1][1], stereo * 2)

\* the audio the voice receiver hands to receive_discord_audio(): nothing,
\* a frame and a half (6 bytes), 6 stereo frames, and a 20 ms packet. All
\* bytes of a chunk are equal.
DiscordChunks == {Bytes(1, 0), Bytes(1, 6), Bytes(1, 24), Bytes(3, FRAME_SIZE)}

\* struct.unpack(f"<{(len(audio) // 4) * 2}h", audio) raises struct.error
\* unless the buffer holds exactly that many 16-bit samples
UnpackStereoRaises(audio) == Length(audio) # 4 * (Length(audio) \div 4)

\* _convert_to_gemini_format for audio whose bytes are all equal: the mean of
\* two equal samples is that sample
convert_to_gemini_format(audio) ==
    IF Length(audio) = 0 THEN <<>>
    ELSE LET num_samples == Length(audio) \div 4
             downsampled == (num_samples + 2) \div 3
         IN Bytes(audio[1][1], downsampled * 2)

Silence == Bytes(0, FRAME_SIZE)

\* a read() that forgets the bytes beyond the frame
forget_remaining(data, old) == <<>>

\* read(), lines 60-75: the frame returned for the data gathered. Returning
\* the data as gathered would hand the player short and long frames.
unpadded_frame(data) == data
read_frame(data) ==
    IF Length(data) = 0 THEN Silence
    ELSE IF Length(data) >= FRAME_SIZE THEN Take(data, FRAME_SIZE)
    ELSE Concat(data, Bytes(0, FRAME_SIZE - Length(data)))

\* read(), lines 60-75: _remaining_data afterwards
read_remaining(data, old) ==
    IF Length(data) = 0 THEN old
    ELSE IF Length(data) >= FRAME_SIZE THEN Drop(data, FRAME_SIZE)
    ELSE <<>>

\* a read() that goes on pulling whatever it holds
FrameNeverReady(data) == FALSE

\* read(), line 53: the loop `while len(data) < self.FRAME_SIZE` is over
FrameReady(data) == Length(data) >= FRAME_SIZE

ReaderIdle == [pc |-> "idle", data |-> <<>>, fresh |-> FALSE]
\* what the last call did; callbacks counts the invocations of the input
\* callback, and frame is then the chunk it was given
Call(op) == [op |-> op, playing |-> FALSE, fresh |-> FALSE, frame |-> <<>>, dropped |-> 0,
             callbacks |-> 0]

(* ---- DiscordAudioInterface ----------------------------------------------- *)

\* a start() that opened the two buffers again
StartReopens ==
    /\ input_callback' = TRUE
    /\ is_running' = TRUE
    /\ output_buffer' = [output_buffer EXCEPT !.closed = FALSE]
    /\ input_buffer' = [input_buffer EXCEPT !.closed = FALSE]
    /\ last' = Call("start")
    /\ UNCHANGED <<is_playing, remaining_data, reader,
                   closer, interrupted, outputs, writer, botVars, bufVars, convVars, wsVars, gaVars>>

\* start(input_callback), lines 51-60
Start ==
    /\ input_callback' = TRUE
    /\ is_running' = TRUE
    /\ last' = Call("start")
    /\ UNCHANGED <<output_buffer, input_buffer, is_playing, remaining_data, reader,
                   closer, interrupted, outputs, writer, botVars, bufVars, convVars, wsVars, gaVars>>

\* stop() up to the lock of _output_buffer.close()'s clear()
StopBegin ==
    /\ ~closer
    /\ is_running' = FALSE
    /\ input_buffer' = AudioBuffer_clear(AudioBuffer_mark_closed(input_buffer))
    /\ output_buffer' = AudioBuffer_mark_closed(output_buffer)
    /\ closer' = TRUE
    /\ last' = Call("stop_begin")
    /\ UNCHANGED <<input_callback, is_playing, remaining_data, reader, interrupted,
                   outputs, writer, botVars, bufVars, convVars, wsVars, gaVars>>

\* stop(): the clear() of the output buffer, and it returns
StopEnd ==
    /\ closer
    /\ output_buffer' = AudioBuffer_clear(output_buffer)
    /\ closer' = FALSE
    /\ last' = Call("stop")
    /\ UNCHANGED <<is_running, input_callback, input_buffer, is_playing, remaining_data,
                   reader, interrupted, outputs, writer, botVars, bufVars, convVars, wsVars, gaVars>>

\* output(audio), called from the agent's receive loop
Output(audio) ==
    /\ IF ~is_running
       THEN /\ last' = Call("output_not_running")
            /\ UNCHANGED <<output_buffer, outputs>>
       ELSE IF UnpackRaises(audio)
       THEN /\ last' = Call("output_raised")
            /\ UNCHANGED <<output_buffer, outputs>>
       ELSE /\ outputs < MaxOutputs
            /\ output_buffer' =
                   AudioBuffer_put(output_buffer, convert_to_discord_format(audio), TRUE)
            /\ outputs' = outputs + 1
            /\ last' = Call("output")
    /\ interrupted' = FALSE
    /\ reader' = [reader EXCEPT !.fresh = FALSE]
    /\ UNCHANGED <<is_running, input_callback, input_buffer, is_playing, remaining_data,
                   closer, writer, botVars, bufVars, convVars, wsVars, gaVars>>

\* no output() in flight; result is how the last one ended, and cleared
\* whether an interrupt() ran while it was in flight
WriterIdle(result, cleared) ==
    [pc |-> "idle", chunk |-> <<>>, cleared |-> cleared, result |-> result]

\* output(audio) called from a thread of its own, up to the conversion:
\* lines 76-80
OutputBegin(audio) ==
    /\ writer.pc = "idle"
    /\ writer' = IF ~is_running THEN WriterIdle("not_running", FALSE)
                 ELSE [pc |-> "convert", chunk |-> audio, cleared |-> FALSE, result |-> "-"]
    /\ last' = Call("output_begin")
    /\ UNCHANGED <<is_running, input_callback, output_buffer, input_buffer, is_playing,
                   remaining_data, reader, closer, interrupted, outputs, botVars,
                   bufVars, convVars, wsVars, gaVars>>

\* that output(): the conversion of line 82, which raises or hands the chunk
\* to put()
OutputConvert ==
    /\ writer.pc = "convert"
    /\ IF UnpackRaises(writer.chunk)
       THEN writer' = WriterIdle("raised", writer.cleared)
       ELSE /\ outputs < MaxOutputs
            /\ writer' = [writer EXCEPT !.pc = "put",
                                        !.chunk = convert_to_discord_format(writer.chunk)]
    /\ last' = Call("output_convert")
    /\ UNCHANGED <<is_running, input_callback, output_buffer, input_buffer, is_playing,
                   remaining_data, reader, closer, interrupted, outputs, botVars,
                   bufVars, convVars, wsVars, gaVars>>

\* that output(): its put() under the lock, line 83; in_loop tells whether
\* the thread runs an event loop
OutputPut(in_loop) ==
    /\ writer.pc = "put"
    /\ output_buffer' = AudioBuffer_put(output_buffer, writer.chunk, in_loop)
    /\ outputs' = outputs + 1
    /\ writer' = WriterIdle("put", writer.cleared)
    /\ interrupted' = FALSE
    /\ last' = Call("output")
    /\ UNCHANGED <<is_running, input_callback, input_buffer, is_playing, remaining_data,
                   reader, closer, botVars, bufVars, convVars, wsVars, gaVars>>

\* receive_discord_audio(pcm_data, user_id), called by the voice receiver
Receive(pcm_data) ==
    /\ last' = IF ~is_running \/ ~input_callback THEN Call("receive_ignored")
               ELSE IF UnpackStereoRaises(pcm_data) THEN Call("receive_raised")
               ELSE [Call("receive") EXCEPT !.callbacks = 1,
                                            !.frame = convert_to_gemini_format(pcm_data)]
    /\ UNCHANGED <<is_running, input_callback, output_buffer, input_buffer, is_playing,
                   remaining_data, reader, closer, interrupted, outputs, writer, botVars,
                   bufVars, convVars, wsVars, gaVars>>

\* interrupt()
Interrupt ==
    /\ output_buffer' = AudioBuffer_clear(output_buffer)
    /\ interrupted' = TRUE
    /\ last' = [Call("interrupt") EXCEPT !.dropped = Len(output_buffer.buffer)]
    /\ writer' = [writer EXCEPT !.cleared = IF writer.pc = "idle" THEN @ ELSE TRUE]
    /\ UNCHANGED <<is_running, input_callback, input_buffer, is_playing, remaining_data,
                   reader, closer, outputs, botVars, bufVars, convVars, wsVars, gaVars>>

\* the event loop runs the _event.set that a put() scheduled
LoopSetsEvent ==
    /\ output_buffer.scheduled
    /\ output_buffer' = AudioBuffer_event_set(output_buffer)
    /\ last' = Call("event_set")
    /\ UNCHANGED <<is_running, input_callback, input_buffer, is_playing, remaining_data,
                   reader, closer, interrupted, outputs, writer, botVars, bufVars, convVars, wsVars, gaVars>>

(* ---- GeminiAudioSource ---------------------------------------------------- *)

\* read() returns: lines 60-75
ReadReturns(data, fresh) ==
    /\ remaining_data' = read_remaining(data, remaining_data)
    /\ reader' = ReaderIdle
    /\ last' = [Call("read") EXCEPT !.playing = TRUE, !.fresh = fresh,
                                    !.frame = read_frame(data)]

\* read() up to its first get(): lines 45-53
ReadBegin ==
    /\ reader.pc = "idle"
    /\ IF ~is_playing
       THEN /\ last' = [Call("read") EXCEPT !.fresh = interrupted]
            /\ UNCHANGED <<reader, remaining_data>>
       ELSE IF FrameReady(remaining_data)
       THEN ReadReturns(remaining_data, interrupted)
       ELSE /\ reader' = [pc |-> "pull", data |-> remaining_data, fresh |-> interrupted]
            /\ last' = Call("read_begin")
            /\ UNCHANGED remaining_data
    /\ interrupted' = FALSE
    /\ UNCHANGED <<is_running, input_callback, output_buffer, input_buffer, is_playing,
                   closer, outputs, writer, botVars, bufVars, convVars, wsVars, gaVars>>

\* one get() of the loop of read(), lines 53-58, and what follows it up to the
\* next get() or the return
ReadPull ==
    /\ reader.pc = "pull"
    /\ output_buffer' = AudioBuffer_get(output_buffer)
    /\ IF output_buffer.buffer = <<>>
       THEN ReadReturns(reader.data, reader.fresh)
       ELSE LET data == Concat(reader.data, Head(output_buffer.buffer)) IN
            IF FrameReady(data)
            THEN ReadReturns(data, reader.fresh)
            ELSE /\ reader' = [reader EXCEPT !.data = data]
                 /\ last' = Call("read_pull")
                 /\ UNCHANGED remaining_data
    /\ UNCHANGED <<is_running, input_callback, input_buffer, is_playing, closer,
                   interrupted, outputs, writer, botVars, bufVars, convVars, wsVars, gaVars>>

\* cleanup()
Cleanup ==
    /\ is_playing' = FALSE
    /\ output_buffer' = AudioBuffer_clear(output_buffer)
    /\ remaining_data' = <<>>
    /\ last' = Call("cleanup")
    /\ UNCHANGED <<is_running, input_callback, input_buffer, reader, closer, interrupted,
                   outputs, writer, botVars, bufVars, convVars, wsVars, gaVars>>

\* GeminiAudioSource.stop()
SourceStop ==
    /\ is_playing' = FALSE
    /\ last' = Call("source_stop")
    /\ UNCHANGED <<is_running, input_callback, output_buffer, input_buffer,
                   remaining_data, reader, closer, interrupted, outputs, writer, botVars, bufVars, convVars, wsVars, gaVars>>

\* resume()
Resume ==
    /\ is_playing' = TRUE
    /\ last' = Call("resume")
    /\ UNCHANGED <<is_running, input_callback, output_buffer, input_buffer,
                   remaining_data, reader, closer, interrupted, outputs, writer, botVars, bufVars, convVars, wsVars, gaVars>>

PathInit ==
    /\ is_running = FALSE
    /\ input_callback = FALSE
    /\ output_buffer = NewAudioBuffer
    /\ input_buffer = NewAudioBuffer
    /\ is_playing = TRUE
    /\ remaining_data = <<>>
    /\ reader = ReaderIdle
    /\ closer = FALSE
    /\ interrupted = FALSE
    /\ outputs = 0
    /\ writer = WriterIdle("-", FALSE)
    /\ last = Call("none")

PathNext ==
    \/ Start
    \/ StopBegin
    \/ StopEnd
    \/ \E audio \in GeminiChunks : Output(audio)
    \/ \E pcm_data \in DiscordChunks : Receive(pcm_data)
    \/ Interrupt
    \/ LoopSetsEvent
    \/ ReadBegin
    \/ ReadPull
    \/ Cleanup
    \/ SourceStop
    \/ Resume

\* output() on a thread of its own against interrupt() on the event loop
ThreadNext ==
    \/ Start
    \/ \E audio \in GeminiChunks : OutputBegin(audio)
    \/ OutputConvert
    \/ \E in_loop \in BOOLEAN : OutputPut(in_loop)
    \/ Interrupt
    \/ LoopSetsEvent

(***************************************************************************)
(* PART 4.  The two format transforms, sample by sample                    *)
(* (src/src/audio/discord_audio_interface.py 115-185).                     *)
(*                                                                         *)
(* Here a byte string is the little-endian packing of a sequence of signed *)
(* 16-bit samples followed by `extra` bytes of a partial sample:           *)
(* [samples |-> <<...>>, extra |-> 0 or 1], of 2 * Len(samples) + extra    *)
(* bytes.                                                                  *)
(***************************************************************************)
\* sample rates of the two conventions (class attributes of the interface)
GEMINI_INPUT_SAMPLE_RATE == 16000
GEMINI_OUTPUT_SAMPLE_RATE == 24000
DISCORD_SAMPLE_RATE == 48000

\* longest sequence of arbitrary samples, longest ramp, calls in a row
MaxSamples == 3
MaxRamp == 14
MaxCalls == 2

\* struct.pack("<nh", *samples)
Pcm(samples) == [samples |-> samples, extra |-> 0]

\* len(audio)
PcmLen(audio) == 2 * Len(audio.samples) + audio.extra

\* struct.unpack(f"<{count}h", audio) raises struct.error unless the buffer
\* holds exactly 2 * count bytes
StructUnpackRaises(count, audio) == PcmLen(audio) # 2 * count

\* int(x / 2) for an integer x: Python's int() truncates toward zero
IntHalf(x) == IF x >= 0 THEN x \div 2 ELSE -((-x) \div 2)

\* a midpoint that rounds down instead of toward zero
FloorInterpolate(a, b) == (2 * a + (b - a)) \div 2

\* a step of the whole difference doubled instead of halved
Overshoot(a, b) == a + 2 * (b - a)

\* int(samples[i] + diff / 2) with diff = samples[i + 1] - samples[i]
Interpolate(a, b) == IntHalf(2 * a + (b - a))

RECURSIVE Upsample(_)
\* lines 136-143: every sample, and one interpolated sample between neighbours
Upsample(samples) ==
    IF Len(samples) <= 1 THEN samples
    ELSE <<samples[1], Interpolate(samples[1], samples[2])>> \o Upsample(Tail(samples))

\* a stereo stage that writes every sample once
MonoOnly(samples) == samples

\* lines 146-149: every sample twice, left then right
Stereo(samples) == [i \in 1..(2 * Len(samples)) |-> samples[(i + 1) \div 2]]

\* an average that keeps the left channel only
LeftOnly(stereo_samples) ==
    [i \in 1..(Len(stereo_samples) \div 2) |-> stereo_samples[2 * i - 1]]

\* lines 175-179: (left + right) // 2 of every stereo frame; the unpacked
\* sequence has an even length, so right is always there
MonoAverage(stereo_samples) ==
    [i \in 1..(Len(stereo_samples) \div 2) |->
        (stereo_samples[2 * i - 1] + stereo_samples[2 * i]) \div 2]

\* a downsampling that keeps every 2nd sample
EverySecond(mono_samples) ==
    [j \in 1..((Len(mono_samples) + 1) \div 2) |-> mono_samples[2 * (j - 1) + 1]]

\* line 182: mono_samples[::3]
Downsample(mono_samples) ==
    [j \in 1..((Len(mono_samples) + 2) \div 3) |-> mono_samples[3 * (j - 1) + 1]]

\* the result of a call: the bytes returned, or struct.error raised
Returned(audio) == [raised |-> FALSE, audio |-> audio]
StructError == [raised |-> TRUE, audio |-> Pcm(<<>>)]

\* _convert_to_discord_format(audio)
convert_to_discord_pcm(audio) ==
    IF PcmLen(audio) = 0 THEN Returned(Pcm(<<>>))
    ELSE IF StructUnpackRaises(PcmLen(audio) \div 2, audio) THEN StructError
    ELSE Returned(Pcm(Stereo(Upsample(audio.samples))))

\* _convert_to_gemini_format(audio)
convert_to_gemini_pcm(audio) ==
    IF PcmLen(audio) = 0 THEN Returned(Pcm(<<>>))
    ELSE IF StructUnpackRaises((PcmLen(audio) \div 4) * 2, audio) THEN StructError
    ELSE Returned(Pcm(Downsample(MonoAverage(audio.samples))))

\* the sample values of the short inputs: both ends of the 16-bit range,
\* a negative, zero, and the values of the documented examples
SampleValues == {-32768, -3, 0, 100, 200, 32767}

RECURSIVE SeqsUpTo(_, _)
\* the sequences over S of length at most n
SeqsUpTo(S, n) ==
    IF n = 0 THEN {<<>>}
    ELSE LET shorter == SeqsUpTo(S, n - 1)
         IN shorter \cup {Append(q, x) : q \in {r \in shorter : Len(r) = n - 1}, x \in S}

\* first, first + step, ...: n samples
Ramp(n, first, step) == [i \in 1..n |-> first + step * (i - 1)]

\* the byte strings handed to the transforms
PcmInputs ==
    { [samples |-> q, extra |-> e] :
        q \in SeqsUpTo(SampleValues, MaxSamples)
                \cup {Ramp(n, f, d) : n \in 0..MaxRamp, f \in {-7, 0, 10, 100},
                                       d \in {-3, 0, 10, 100}},
        e \in {0, 1} }

ConvCall(op, result) ==
    [op |-> op, input |-> conv_pcm, raised |-> result.raised, output |-> result.audio]

\* the last call raised: the caller's handler is gone and makes no further call
LastRaised == IF conv_calls = <<>> THEN FALSE ELSE conv_calls[Len(conv_calls)].raised

\* one call of a transform on the current bytes; what it returns is what the
\* next call is given
Convert(op, result) ==
    /\ Len(conv_calls) < MaxCalls
    /\ ~LastRaised
    /\ conv_calls' = Append(conv_calls, ConvCall(op, result))
    /\ conv_pcm' = IF result.raised THEN conv_pcm ELSE result.audio
    /\ UNCHANGED <<botVars, bufVars, pathVars, wsVars, gaVars>>

ConvertToDiscord == Convert("to_discord", convert_to_discord_pcm(conv_pcm))

ConvertToGemini == Convert("to_gemini", convert_to_gemini_pcm(conv_pcm))

ConvInit ==
    /\ conv_pcm \in PcmInputs
    /\ conv_calls = <<>>

\* no transform is exercised
ConvIdle ==
    /\ conv_pcm = Pcm(<<>>)
    /\ conv_calls = <<>>

ConvNext ==
    \/ ConvertToDiscord
    \/ ConvertToGemini

(***************************************************************************)
(* PART 5.  ElevenLabsWebSocketClient                                      *)
(* (src/src/elevenlabs_agent/websocket_client.py).                         *)
(*                                                                         *)
(* ws.handle says that self._ws is set, ws.transport is the state of the   *)
(* socket ("none" before it exists, then "open" or "closed"), and ws.task  *)
(* is the receive task: "none", "created" (not yet run), "running",        *)
(* "cancelling" (cancelled, CancelledError not yet delivered), "dropped"   *)
(* (cancelled before its first step) or "done".  The client is called as   *)
(* ElevenLabsAgent calls it: connect() once, on a fresh client.            *)
(***************************************************************************)
\* disconnect() calls made on one client
MaxDisconnects == 2

NewClient == [handle |-> FALSE, is_connected |-> FALSE, task |-> "none",
              conversation_id |-> None, transport |-> "none"]

\* a callback invocation; args is a tuple of strings
Fired(cb, args) == [cb |-> cb, args |-> args]

\* an inbound frame. "malformed" is text json.loads rejects, "scalar" is JSON
\* that is not an object; a field the message lacks is None
Msg(type, audio, role, text) == [type |-> type, audio |-> audio, role |-> role, text |-> text]

\* what a step did: callbacks invoked, frames put on the socket, close()
\* calls on the socket, and what the call returned ("-" where nothing is);
\* for a message handled by the loop, the message and the type of the
\* message handled in the step before
WsStep(op, cbs, sent, closes, returned) ==
    [op |-> op, cbs |-> cbs, sent |-> sent, closes |-> closes, returned |-> returned,
     msg |-> Msg("-", None, None, None), after |-> "-"]

\* the guard of send_audio, send_text and interrupt passes
CanSendAnyway(c) == TRUE
CanSend(c) == c.is_connected /\ c.handle

\* the except clause of send_audio / send_text / interrupt
SendErrorCallbacks(kind) == IF kind = "interrupt" THEN {} ELSE {Fired("error", <<>>)}

\* a connect() that fails without telling anybody
connect_quietly(ok) ==
    IF ok THEN WsStep("connect", {Fired("connected", <<>>)}, <<>>, 0, "True")
    ELSE WsStep("connect", {}, <<>>, 0, "False")

\* connect(): what it reports, lines 96-105
connect_reports(ok) ==
    IF ok THEN WsStep("connect", {Fired("connected", <<>>)}, <<>>, 0, "True")
    ELSE WsStep("connect", {Fired("error", <<>>)}, <<>>, 0, "False")

\* the frames the peer sends
Messages ==
    { Msg("audio", a, None, None) : a \in {"QUJD", "", "!"} }
      \cup { Msg("transcript", None, r, t) : r \in {"user", "agent", None}, t \in {"hi", ""} }
      \cup { Msg("agent_response", None, None, t) : t \in {"hi", ""} }
      \cup { Msg(ty, None, None, None) :
               ty \in {"conversation_initiation_metadata", "error", "ping",
                       "user_transcript", "malformed", "scalar"} }

\* base64.b64decode: the bytes, or "raises" for text that is not base64
b64decode(text) ==
    CASE text = "QUJD" -> "ABC"
      [] text = "" -> ""
      [] OTHER -> "raises"

\* a dispatch that passes every transcript on as the user's
DispatchAsUser(msg) ==
    CASE msg.type = "audio" /\ msg.audio \notin {"", "!"} ->
             {Fired("audio", <<b64decode(msg.audio)>>)}
      [] msg.type \in {"transcript", "agent_response"} /\ msg.text # "" ->
             {Fired("transcript", <<"user", msg.text>>)}
      [] msg.type = "error" -> {Fired("error", <<>>)}
      [] OTHER -> {}

\* _handle_message: the callbacks it invokes, lines 217-256
Dispatch(msg) ==
    CASE msg.type = "audio" /\ msg.audio # "" /\ b64decode(msg.audio) # "raises" ->
             {Fired("audio", <<b64decode(msg.audio)>>)}
      [] msg.type = "transcript" /\ msg.text # "" ->
             {Fired("transcript", <<IF msg.role = None THEN "user" ELSE msg.role, msg.text>>)}
      [] msg.type = "agent_response" /\ msg.text # "" ->
             {Fired("transcript", <<"agent", msg.text>>)}
      [] msg.type = "error" -> {Fired("error", <<>>)}
      [] OTHER -> {}

\* a _handle_message without its except clauses
EscapesUnparsed(msg) == msg.type \in {"malformed", "scalar"}

\* an exception leaves _handle_message: never, lines 258-261 catch them all
Escapes(msg) == FALSE

(* ---- calls ---------------------------------------------------------------- *)

\* connect() up to `await websockets.connect(...)`
WsConnectBegin ==
    /\ ws_calls.connect = "new"
    /\ ws_calls' = [ws_calls EXCEPT !.connect = "connecting"]
    /\ ws_last' = WsStep("connect_begin", {}, <<>>, 0, "-")
    /\ UNCHANGED <<ws, ws_fired, botVars, bufVars, pathVars, convVars, gaVars>>

\* connect(): the socket is there; lines 90-99
WsConnectOk ==
    /\ ws_calls.connect = "connecting"
    /\ ws' = [ws EXCEPT !.handle = TRUE, !.transport = "open", !.is_connected = TRUE,
                        !.task = "created"]
    /\ ws_calls' = [ws_calls EXCEPT !.connect = "done"]
    /\ ws_last' = connect_reports(TRUE)
    /\ ws_fired' = 0
    /\ UNCHANGED <<botVars, bufVars, pathVars, convVars, gaVars>>

\* connect(): websockets.connect raised; lines 101-105
WsConnectFails ==
    /\ ws_calls.connect = "connecting"
    /\ ws_calls' = [ws_calls EXCEPT !.connect = "done"]
    /\ ws_last' = connect_reports(FALSE)
    /\ UNCHANGED <<ws, ws_fired, botVars, bufVars, pathVars, convVars, gaVars>>

\* disconnect() from `if self._ws` on: it awaits the close of the socket, or
\* has none and fires the callback
DisconnectRest(c) ==
    IF c.handle
    THEN /\ ws' = c
         /\ ws_calls' = [ws_calls EXCEPT !.disconnect = "closing", !.count = @ + 1]
         /\ ws_fired' = ws_fired
         /\ ws_last' = WsStep("disconnect_closing", {}, <<>>, 1, "-")
    ELSE /\ ws' = c
         /\ ws_calls' = [ws_calls EXCEPT !.disconnect = "idle", !.count = @ + 1]
         /\ ws_fired' = ws_fired + 1
         /\ ws_last' = WsStep("disconnect", {Fired("disconnected", <<>>)}, <<>>, 0, "None")

\* disconnect() up to its first await; awaiting a finished task, or having
\* none, does not suspend
WsDisconnectBegin ==
    /\ ws_calls.disconnect = "idle"
    /\ ws_calls.count < MaxDisconnects
    /\ LET c == [ws EXCEPT !.is_connected = FALSE,
                           !.task = CASE @ = "created" -> "dropped"
                                      [] @ = "running" -> "cancelling"
                                      [] OTHER -> @]
       IN IF c.task \in {"dropped", "cancelling"}
          THEN /\ ws' = c
               /\ ws_calls' = [ws_calls EXCEPT !.disconnect = "awaiting"]
               /\ ws_last' = WsStep("disconnect_begin", {}, <<>>, 0, "-")
               /\ UNCHANGED ws_fired
          ELSE DisconnectRest(c)
    /\ UNCHANGED <<botVars, bufVars, pathVars, convVars, gaVars>>

\* disconnect(): the awaited task has ended
WsDisconnectTaskEnded ==
    /\ ws_calls.disconnect = "awaiting"
    /\ ws.task = "done"
    /\ DisconnectRest(ws)
    /\ UNCHANGED <<botVars, bufVars, pathVars, convVars, gaVars>>

\* disconnect(): the socket is closed; lines 120-123
WsDisconnectClosed ==
    /\ ws_calls.disconnect = "closing"
    /\ ws' = [ws EXCEPT !.handle = FALSE, !.transport = "closed"]
    /\ ws_calls' = [ws_calls EXCEPT !.disconnect = "idle"]
    /\ ws_fired' = ws_fired + 1
    /\ ws_last' = WsStep("disconnect", {Fired("disconnected", <<>>)}, <<>>, 0, "None")
    /\ UNCHANGED <<botVars, bufVars, pathVars, convVars, gaVars>>

\* send_audio / send_text / interrupt; `fails` says that the socket's send
\* raises, as it always does on a closed socket
WsSend(kind, fails) ==
    /\ ws.transport # "open" => fails
    /\ ws_last' = IF ~CanSend(ws) THEN WsStep(kind, {}, <<>>, 0, "None")
                  ELSE IF fails THEN WsStep(kind, SendErrorCallbacks(kind), <<>>, 0, "failed")
                  ELSE WsStep(kind, {}, <<kind>>, 0, "None")
    /\ UNCHANGED <<ws, ws_calls, ws_fired, botVars, bufVars, pathVars, convVars, gaVars>>

(* ---- the receive task ------------------------------------------------------ *)

\* the finally clause of _receive_loop, after the callbacks cbs of an except
LoopExits(op, cbs) ==
    /\ ws' = [ws EXCEPT !.is_connected = FALSE, !.task = "done"]
    /\ ws_fired' = ws_fired + 1
    /\ ws_last' = WsStep(op, cbs \cup {Fired("disconnected", <<>>)}, <<>>, 0, "-")
    /\ UNCHANGED ws_calls

\* the task runs for the first time: lines 190-194
WsLoopStarts ==
    /\ ws.task = "created"
    /\ ws' = [ws EXCEPT !.task = IF ws.handle THEN "running" ELSE "done"]
    /\ ws_last' = WsStep("loop_start", {}, <<>>, 0, "-")
    /\ UNCHANGED <<ws_calls, ws_fired, botVars, bufVars, pathVars, convVars, gaVars>>

\* one message: `await self._handle_message(message)`, and its pong
WsReceive(msg, pong_fails) ==
    /\ ws.task = "running"
    /\ ws.transport = "open"
    /\ pong_fails => msg.type = "ping"
    /\ IF Escapes(msg)
       THEN LoopExits("loop_error", {Fired("error", <<>>)})
       ELSE /\ ws' = IF msg.type = "conversation_initiation_metadata"
                     THEN [ws EXCEPT !.conversation_id = "conv1"] ELSE ws
            /\ ws_last' = [WsStep("message", Dispatch(msg),
                                  IF msg.type = "ping" /\ ~pong_fails THEN <<"pong">>
                                  ELSE <<>>, 0, "-")
                              EXCEPT !.msg = msg,
                                     !.after = IF ws_last.op = "message"
                                               THEN ws_last.msg.type ELSE "-"]
            /\ UNCHANGED <<ws_calls, ws_fired>>
    /\ UNCHANGED <<botVars, bufVars, pathVars, convVars, gaVars>>

\* the peer closes the socket
WsRemoteClose ==
    /\ ws.transport = "open"
    /\ ws' = [ws EXCEPT !.transport = "closed"]
    /\ ws_last' = WsStep("remote_close", {}, <<>>, 0, "-")
    /\ UNCHANGED <<ws_calls, ws_fired, botVars, bufVars, pathVars, convVars, gaVars>>

\* the loop finds the socket closed: websockets.ConnectionClosed, lines 196-197
WsLoopClosed ==
    /\ ws.task = "running"
    /\ ws.transport = "closed"
    /\ LoopExits("loop_closed", {})
    /\ UNCHANGED <<botVars, bufVars, pathVars, convVars, gaVars>>

\* the iteration of the socket raises something else: lines 200-203
WsLoopError ==
    /\ ws.task = "running"
    /\ LoopExits("loop_error", {Fired("error", <<>>)})
    /\ UNCHANGED <<botVars, bufVars, pathVars, convVars, gaVars>>

\* the cancelled task is resumed: CancelledError, lines 198-199; a task that
\* never ran ends without running any of its code
WsLoopCancelled ==
    /\ ws.task \in {"cancelling", "dropped"}
    /\ IF ws.task = "cancelling"
       THEN LoopExits("loop_cancelled", {})
       ELSE /\ ws' = [ws EXCEPT !.task = "done"]
            /\ ws_last' = WsStep("loop_dropped", {}, <<>>, 0, "-")
            /\ UNCHANGED <<ws_calls, ws_fired>>
    /\ UNCHANGED <<botVars, bufVars, pathVars, convVars, gaVars>>

WsInit ==
    /\ ws = NewClient
    /\ ws_calls = [connect |-> "new", disconnect |-> "idle", count |-> 0]
    /\ ws_fired = 0
    /\ ws_last = WsStep("none", {}, <<>>, 0, "-")

WsNext ==
    \/ WsConnectBegin
    \/ WsConnectOk
    \/ WsConnectFails
    \/ WsDisconnectBegin
    \/ WsDisconnectTaskEnded
    \/ WsDisconnectClosed
    \/ \E kind \in {"audio", "text", "interrupt"}, fails \in BOOLEAN : WsSend(kind, fails)
    \/ WsLoopStarts
    \/ \E msg \in Messages, pong_fails \in BOOLEAN : WsReceive(msg, pong_fails)
    \/ WsRemoteClose
    \/ WsLoopClosed
    \/ WsLoopError
    \/ WsLoopCancelled

(***************************************************************************)
(* PART 6.  GeminiLiveAgent (src/gemini_agent/agent.py): start_session,    *)
(* the session task _run_session with its send and receive loops, and      *)
(* end_session.  One action is one run of a coroutine between two awaits.  *)
(***************************************************************************)
\* end_session() calls made on one agent
MaxEnds == 2
\* start_session() calls made on one agent
MaxStarts == 2
\* chunks handed to _handle_input_audio in one run
MaxPending == 4

\* the session tasks start_session() creates, in the order of creation
SessionTasks == 1..MaxStarts

\* __init__, lines 56-69, and the audio interface it is given, not started.
\* session and session_task are 0 for None, else the number of the session
\* task whose session is held, and of the task held
NewAgent == [is_active |-> FALSE, session |-> 0, session_task |-> 0,
             session_ready |-> FALSE, interface_running |-> FALSE]

\* task.cancel() on a loop task: a finished task is left alone
CancelLoop(t) == IF t \in {"created", "running"} THEN "cancelling" ELSE t

\* _run_session leaves `while self._is_active`: the finally of lines 155-159
\* cancels both loops and awaits the send loop
LeaveWhile(k) ==
    /\ ga_loops' = [ga_loops EXCEPT ![k] = [send |-> CancelLoop(@.send),
                                            recv |-> CancelLoop(@.recv)]]
    /\ ga_task' = [ga_task EXCEPT ![k] = [pc |-> "await_send", cancel |-> FALSE]]

\* the finally of _run_session, lines 169-172
SessionFinally(k) ==
    /\ ga' = [ga EXCEPT !.session = 0, !.is_active = FALSE]
    /\ ga_task' = [ga_task EXCEPT ![k] = [pc |-> "done", cancel |-> FALSE]]

\* start_session(): on an active agent it returns True at once (lines 91-93);
\* else it runs up to the await of line 107: marks the agent active, starts
\* the audio interface, creates a session task
GaStartBegin ==
    /\ ga_calls.start = "idle"
    /\ ga_calls.starts < MaxStarts
    /\ IF ga.is_active
       THEN /\ ga_calls' = [ga_calls EXCEPT !.starts = @ + 1, !.started = "True"]
            /\ UNCHANGED <<ga, ga_task>>
       ELSE LET k == ga_calls.starts + 1 IN
            /\ ga' = [ga EXCEPT !.is_active = TRUE, !.session_ready = FALSE,
                                !.interface_running = TRUE, !.session_task = k]
            /\ ga_task' = [ga_task EXCEPT ![k] = [pc |-> "created", cancel |-> FALSE]]
            /\ ga_calls' = [ga_calls EXCEPT !.start = "waiting", !.starts = @ + 1,
                                            !.started = "-"]
    /\ UNCHANGED <<ga_loops, ga_queue, botVars, bufVars, pathVars, convVars, wsVars>>

\* start_session(): the event was set within the timeout; lines 108-109
GaStartReady ==
    /\ ga_calls.start = "waiting"
    /\ ga.session_ready
    /\ ga_calls' = [ga_calls EXCEPT !.start = "idle", !.started = "True"]
    /\ UNCHANGED <<ga, ga_task, ga_loops, ga_queue, botVars, bufVars, pathVars, convVars, wsVars>>

\* start_session(): asyncio.TimeoutError after 10 seconds; lines 110-113
GaStartTimeout ==
    /\ ga_calls.start = "waiting"
    /\ ~ga.session_ready
    /\ ga' = [ga EXCEPT !.is_active = FALSE]
    /\ ga_calls' = [ga_calls EXCEPT !.start = "idle", !.started = "False"]
    /\ UNCHANGED <<ga_task, ga_loops, ga_queue, botVars, bufVars, pathVars, convVars, wsVars>>

\* a session task runs for the first time, up to the await inside
\* client.aio.live.connect; lines 122-142
GaSessionStarts(k) ==
    /\ ga_task[k] = [pc |-> "created", cancel |-> FALSE]
    /\ ga_task' = [ga_task EXCEPT ![k].pc = "connecting"]
    /\ UNCHANGED <<ga, ga_loops, ga_calls, ga_queue, botVars, bufVars, pathVars, convVars, wsVars>>

\* the connection is made: lines 143-154 store the session, set the event,
\* create both loops and test _is_active
GaSessionConnected(k) ==
    /\ ga_task[k] = [pc |-> "connecting", cancel |-> FALSE]
    /\ ga' = [ga EXCEPT !.session = k, !.session_ready = TRUE]
    /\ IF ga.is_active
       THEN /\ ga_loops' = [ga_loops EXCEPT ![k] = [send |-> "created", recv |-> "created"]]
            /\ ga_task' = [ga_task EXCEPT ![k].pc = "sleeping"]
       ELSE /\ ga_loops' = [ga_loops EXCEPT ![k] = [send |-> "cancelling",
                                                    recv |-> "cancelling"]]
            /\ ga_task' = [ga_task EXCEPT ![k].pc = "await_send"]
    /\ UNCHANGED <<ga_calls, ga_queue, botVars, bufVars, pathVars, convVars, wsVars>>

\* the connection cannot be made: except Exception and finally, lines 167-172
GaSessionConnectFails(k) ==
    /\ ga_task[k] = [pc |-> "connecting", cancel |-> FALSE]
    /\ SessionFinally(k)
    /\ UNCHANGED <<ga_loops, ga_calls, ga_queue, botVars, bufVars, pathVars, convVars, wsVars>>

\* asyncio.sleep(0.1) is over and _is_active is false; lines 153-159
GaSessionTick(k) ==
    /\ ga_task[k] = [pc |-> "sleeping", cancel |-> FALSE]
    /\ ~ga.is_active
    /\ LeaveWhile(k)
    /\ UNCHANGED <<ga, ga_calls, ga_queue, botVars, bufVars, pathVars, convVars, wsVars>>

\* the cancellation requested by end_session() reaches the session task: a
\* task that never ran ends without running any of its code, one that is
\* connecting runs its finally, one that sleeps in `while self._is_active`
\* (lines 153-154) runs the inner finally
GaSessionCancelled(k) ==
    /\ ga_task[k].cancel
    /\ CASE ga_task[k].pc = "created" ->
                /\ ga_task' = [ga_task EXCEPT ![k] = [pc |-> "done", cancel |-> FALSE]]
                /\ UNCHANGED <<ga, ga_loops>>
         [] ga_task[k].pc = "connecting" -> SessionFinally(k) /\ UNCHANGED ga_loops
         [] ga_task[k].pc = "sleeping" -> LeaveWhile(k) /\ UNCHANGED ga
    /\ UNCHANGED <<ga_calls, ga_queue, botVars, bufVars, pathVars, convVars, wsVars>>

\* await send_task is over; lines 158-163
GaSessionSendAwaited(k) ==
    /\ ga_task[k].pc = "await_send"
    /\ ga_loops[k].send = "done"
    /\ ga_task' = [ga_task EXCEPT ![k].pc = "await_recv"]
    /\ UNCHANGED <<ga, ga_loops, ga_calls, ga_queue, botVars, bufVars, pathVars, convVars, wsVars>>

\* await receive_task is over, the async with block is left and the session
\* closes; lines 162-165, 142
GaSessionRecvAwaited(k) ==
    /\ ga_task[k].pc = "await_recv"
    /\ ga_loops[k].recv = "done"
    /\ ga_task' = [ga_task EXCEPT ![k].pc = "closing"]
    /\ UNCHANGED <<ga, ga_loops, ga_calls, ga_queue, botVars, bufVars, pathVars, convVars, wsVars>>

\* the session has closed: the finally of lines 169-172
GaSessionClosed(k) ==
    /\ ga_task[k].pc = "closing"
    /\ SessionFinally(k)
    /\ UNCHANGED <<ga_loops, ga_calls, ga_queue, botVars, bufVars, pathVars, convVars, wsVars>>

\* _send_loop tests `self._is_active and self._session` (line 250) and waits
\* on the queue or ends
GaSendLoopStep(k) ==
    /\ ga_loops[k].send \in {"created", "running"}
    /\ ga_loops' = [ga_loops EXCEPT ![k].send = IF ga.is_active /\ ga.session # 0
                                                THEN "running" ELSE "done"]
    /\ UNCHANGED <<ga, ga_task, ga_calls, ga_queue, botVars, bufVars, pathVars, convVars, wsVars>>

\* _send_loop takes the oldest chunk off the queue and sends it, or skips it
\* when the session is gone (lines 254-275); a failed send is logged and the
\* loop goes on (lines 279-281)
GaSendLoopSends(k) ==
    /\ ga_loops[k].send = "running"
    /\ ga_queue.items # <<>>
    /\ ga_queue' = [ga_queue EXCEPT !.items = Tail(@)]
    /\ UNCHANGED <<ga, ga_task, ga_loops, ga_calls, botVars, bufVars, pathVars, convVars, wsVars>>

\* _receive_loop tests `self._is_active and self._session` (lines 290, 293)
\* and waits for a response or ends
GaRecvLoopStep(k) ==
    /\ ga_loops[k].recv \in {"created", "running"}
    /\ ga_loops' = [ga_loops EXCEPT ![k].recv = IF ga.is_active /\ ga.session # 0
                                                THEN "running" ELSE "done"]
    /\ UNCHANGED <<ga, ga_task, ga_calls, ga_queue, botVars, bufVars, pathVars, convVars, wsVars>>

\* session.receive() or _handle_response raises: lines 298-301 log and break
GaRecvLoopFails(k) ==
    /\ ga_loops[k].recv = "running"
    /\ ga_loops' = [ga_loops EXCEPT ![k].recv = "done"]
    /\ UNCHANGED <<ga, ga_task, ga_calls, ga_queue, botVars, bufVars, pathVars, convVars, wsVars>>

\* the cancellation reaches a loop: lines 277-278, 303-304
GaLoopCancelled(k, which) ==
    /\ ga_loops[k][which] = "cancelling"
    /\ ga_loops' = [ga_loops EXCEPT ![k][which] = "done"]
    /\ UNCHANGED <<ga, ga_task, ga_calls, ga_queue, botVars, bufVars, pathVars, convVars, wsVars>>

\* end_session() up to its await, lines 176-182, or to its end when there
\* is no session task.  Cancelling a session task that awaits one of its
\* loops only cancels that loop again
GaEndBegin ==
    /\ ga_calls.end = "idle"
    /\ ga_calls.ends < MaxEnds
    /\ IF ga.session_task # 0
       THEN LET k == ga.session_task IN
            /\ ga' = [ga EXCEPT !.is_active = FALSE]
            /\ ga_task' = [ga_task EXCEPT
                              ![k].cancel = ga_task[k].pc \in {"created", "connecting",
                                                               "sleeping"}]
            /\ ga_calls' = [ga_calls EXCEPT !.end = "awaiting", !.awaits = k, !.ends = @ + 1]
       ELSE /\ ga' = [ga EXCEPT !.is_active = FALSE, !.interface_running = FALSE]
            /\ ga_calls' = [ga_calls EXCEPT !.ends = @ + 1]
            /\ UNCHANGED ga_task
    /\ UNCHANGED <<ga_loops, ga_queue, botVars, bufVars, pathVars, convVars, wsVars>>

\* end_session(): the session task it cancelled has ended; lines 183-190
GaEndAwaited ==
    /\ ga_calls.end = "awaiting"
    /\ ga_task[ga_calls.awaits].pc = "done"
    /\ ga' = [ga EXCEPT !.session_task = 0, !.interface_running = FALSE]
    /\ ga_calls' = [ga_calls EXCEPT !.end = "idle", !.awaits = 0]
    /\ UNCHANGED <<ga_task, ga_loops, ga_queue, botVars, bufVars, pathVars, convVars, wsVars>>

\* asyncio.Queue(): put_nowait on a queue made without maxsize appends
QueuePut(items, x) == Append(items, x)

\* _handle_input_audio(audio_data), the callback the started interface calls
\* with each converted chunk of room audio; lines 237-244. The chunks are
\* numbered in the order they arrive
GaHandleInputAudio ==
    /\ ga.interface_running
    /\ IF ga.is_active
       THEN /\ ga_queue.puts < MaxPending
            /\ ga_queue' = [items |-> QueuePut(ga_queue.items, ga_queue.puts + 1),
                            puts |-> ga_queue.puts + 1]
       ELSE UNCHANGED ga_queue
    /\ UNCHANGED <<ga, ga_task, ga_loops, ga_calls, botVars, bufVars, pathVars, convVars, wsVars>>

GaInit ==
    /\ ga = NewAgent
    /\ ga_task = [k \in SessionTasks |-> [pc |-> "none", cancel |-> FALSE]]
    /\ ga_loops = [k \in SessionTasks |-> [send |-> "none", recv |-> "none"]]
    /\ ga_calls = [start |-> "idle", started |-> "-", starts |-> 0,
                   end |-> "idle", awaits |-> 0, ends |-> 0]
    /\ ga_queue = [items |-> <<>>, puts |-> 0]

\* the steps of the session tasks and of their loops
GaBackground ==
    \E k \in SessionTasks :
        \/ GaSessionStarts(k)
        \/ GaSessionConnected(k)
        \/ GaSessionConnectFails(k)
        \/ GaSessionTick(k)
        \/ GaSessionCancelled(k)
        \/ GaSessionSendAwaited(k)
        \/ GaSessionRecvAwaited(k)
        \/ GaSessionClosed(k)
        \/ GaSendLoopStep(k)
        \/ GaSendLoopSends(k)
        \/ GaRecvLoopStep(k)
        \/ GaRecvLoopFails(k)
        \/ \E which \in {"send", "recv"} : GaLoopCancelled(k, which)

GaNext ==
    \/ GaStartBegin
    \/ GaStartReady
    \/ GaStartTimeout
    \/ GaEndBegin
    \/ GaEndAwaited
    \/ GaHandleInputAudio
    \/ GaBackground

(***************************************************************************)
(* The specifications: the session manager, the session manager with       *)
(* joins only, a buffer on its own, the audio path, the transforms, and    *)
(* the websocket client.                                                   *)
(***************************************************************************)
\* the world the bot rests in while the audio objects are exercised
QuietWorld == <<{"c1"}, {"m1"}, {}, FALSE, TRUE>>

Init == (\E w \in Worlds : BotInit(w)) /\ BufInit /\ PathInit /\ ConvIdle /\ WsInit /\ GaInit
InitAudio == BotInit(QuietWorld) /\ BufInit /\ PathInit /\ ConvIdle /\ WsInit /\ GaInit
InitConv == BotInit(QuietWorld) /\ BufInit /\ PathInit /\ ConvInit /\ WsInit /\ GaInit

Next == JoinNext \/ LeaveNext
Spec == Init /\ [][Next]_vars
SpecJoin == Init /\ [][JoinNext]_vars
SpecBuffer == InitAudio /\ [][BufNext]_vars
SpecAudio == InitAudio /\ [][PathNext]_vars
\* read() runs on the voice player's thread, which is scheduled whatever the
\* event loop does, and get() holds the lock for one pop only
SpecAudioFair == SpecAudio /\ WF_vars(ReadPull)
SpecConv == InitConv /\ [][ConvNext]_vars
SpecWs == InitAudio /\ [][WsNext]_vars
SpecAgent == InitAudio /\ [][GaNext]_vars
SpecThreads == InitAudio /\ [][ThreadNext]_vars

(***************************************************************************)
(* PROPERTIES of the session manager.                                      *)
(***************************************************************************)
\* the voice clients of guild g that are connecting or connected, and the
\* agents made for g that have been started and not ended
LiveVcs(g) ==
    {v \in VcIds : /\ vcState[v] \in {"connecting", "connected", "disconnecting"}
                   /\ vcChannel[v] # None
                   /\ GuildOf(vcChannel[v]) = g}
LiveAgents(g) ==
    {a \in AgentIds : agentState[a] \in {"starting", "active", "failed"} /\ agentGuild[a] = g}

\* what a registry holds for guild g
Registered(d, g) == IF Has(d, g) THEN {d[g]} ELSE {}

\* the participants of guild g that count as greeted
GreetedIn(g, where, greeted) ==
    {m \in Members : where[m] # None /\ GuildOf(where[m]) = g /\ m \in greeted}

(* C1: with joins only (presence joins and join commands, in any          *)
(* interleaving), a guild never has more than one live voice connection    *)
(* nor more than one live agent, and no step taken while the guild's       *)
(* session is registered for a channel makes a connection or an agent for  *)
(* that guild or changes what is registered for it.                        *)
C1_OneSessionPerGuild ==
    /\ [](\A g \in Guilds : Cardinality(LiveVcs(g)) <= 1 /\ Cardinality(LiveAgents(g)) <= 1)
    /\ [][\A ch \in channels :
            SessionIn(GuildOf(ch), ch) =>
                /\ LiveVcs(GuildOf(ch))' = LiveVcs(GuildOf(ch))
                /\ LiveAgents(GuildOf(ch))' = LiveAgents(GuildOf(ch))
                /\ Registered(voice_connections, GuildOf(ch))'
                       = Registered(voice_connections, GuildOf(ch))
                /\ Registered(active_conversations, GuildOf(ch))'
                       = Registered(active_conversations, GuildOf(ch))]_vars

\* a join command was refused for a guild whose session is registered
C1_JoinWhileInSession ==
    /\ outcome = "reply_already"
    /\ \E ch \in channels : SessionIn(GuildOf(ch), ch)
    /\ \A g \in Guilds : Cardinality(LiveVcs(g)) + Cardinality(LiveAgents(g)) \in {0, 2}

(* C2 as stated: when _join_voice_channel fails (connect raises, the      *)
(* agent cannot be made, or start_session returns False), the guild is in  *)
(* neither registry afterwards and the caller is told of the failure.      *)
C2_FailedJoinLeavesNothing ==
    [][\A t \in Tasks :
          (ConnectFails(t) \/ AgentCreationFails(t) \/ StartTimesOut(t)) =>
              /\ ~Has(voice_connections', GuildOf(tasks[t].ch))
              /\ ~Has(active_conversations', GuildOf(tasks[t].ch))
              /\ outcome' \in {"reply_failed", "raised"}]_vars

C4_GreetedClearedOnSessionEnd ==
    [][/\ \A m \in members :
            UserLeaveOthersRemain(m) => greeted_users' = greeted_users \ {m}
       /\ \A t \in Tasks :
            (/\ tasks[t].kind \in {"user_leave", "leave_cmd"}
             /\ tasks[t].agent # 0
             /\ tasks'[t] = Idle) => greeted_users' = {}]_vars

(* C5 as stated: a greeting is sent only when greeting is enabled and     *)
(* only to a member who is not marked greeted, on both join paths.         *)
C5_GreetedOncePerSession ==
    [][\A t \in Tasks :
          (tasks'[t].pc = "send" /\ tasks[t].pc # "send" /\ outcome' = "greeting_sent") =>
              (greeting_enabled /\ tasks'[t].m \notin greeted_users)]_vars

(* C6 as stated: a step of a handler working for one guild changes        *)
(* neither the connection nor the agent registered for another guild, nor  *)
(* which of the other guild's participants count as greeted.               *)
C6_RoomsIsolated ==
    [][\A t \in Tasks :
          (tasks[t].kind # "idle" /\ tasks'[t] # tasks[t]) =>
              \A g \in Guilds \ {GuildOf(tasks[t].ch)} :
                  /\ Registered(voice_connections, g)' = Registered(voice_connections, g)
                  /\ Registered(active_conversations, g)' = Registered(active_conversations, g)
                  /\ GreetedIn(g, loc, greeted_users)' = GreetedIn(g, loc, greeted_users)]_vars

(***************************************************************************)
(* PROPERTIES of the audio path.                                           *)
(***************************************************************************)

C8_SilenceAfterInterrupt ==
    (last.op = "read" /\ last.playing /\ last.fresh) => last.frame = Silence

(* C9: a step of interrupt() leaves the outbound queue empty and changes  *)
(* neither the running flag, the input callback, the inbound queue, the    *)
(* outbound queue's closed flag, the audio source, nor any agent.          *)
C9_InterruptOnlyEmptiesOutbound ==
    [][Interrupt =>
          /\ output_buffer'.buffer = <<>>
          /\ output_buffer'.closed = output_buffer.closed
          /\ UNCHANGED <<is_running, input_callback, input_buffer, is_playing,
                         remaining_data, reader, agentState, active_conversations>>]_vars

\* interrupt() has just dropped queued chunks of a running interface
C9_InterruptedWhileRunning ==
    /\ last.op = "interrupt"
    /\ last.dropped > 0
    /\ output_buffer.buffer = <<>>
    /\ is_running
    /\ input_callback

(* C10: an AudioBuffer never holds more than MaxSize chunks; a put() on   *)
(* an open buffer appends the chunk, dropping the oldest one first when    *)
(* the buffer is full; and put() can always be taken, it never waits.      *)
C10_BoundedDropOldest ==
    /\ Len(buf.buffer) <= MaxSize
    /\ (buf_last.op = "put" /\ ~buf_last.was_closed) =>
          buf.buffer = (IF Len(buf_last.before) = MaxSize
                        THEN Append(Tail(buf_last.before), buf_last.data)
                        ELSE Append(buf_last.before, buf_last.data))
    /\ \A data \in BufferChunks : ENABLED BufPut(data, FALSE)

\* put(c) on a full buffer [a, b] has left [b, c]
C10_OldestDropped ==
    /\ buf_last.op = "put"
    /\ ~buf_last.was_closed
    /\ Len(buf_last.before) = MaxSize
    /\ buf_last.before[1] = Bytes(1, 2)
    /\ buf_last.data = Bytes(3, 2)
    /\ buf.buffer = Append(Tail(buf_last.before), Bytes(3, 2))

(* C11: get_all() returns the chunks the buffer holds, that is the chunks *)
(* put into it that were neither evicted by a later put() nor taken by an  *)
(* earlier get(), joined oldest first, and it leaves the buffer empty; it  *)
(* is one step, so no other call sees a part of it.                        *)
C11_GetAllDrains ==
    /\ [](buf_last.op = "get_all" =>
            /\ buf_last.returned = Join(buf_last.before)
            /\ Length(buf_last.returned) = 2 * Len(buf_last.before)
            /\ \A i \in 1..Len(buf_last.before) :
                   Take(Drop(buf_last.returned, 2 * (i - 1)), 2) = buf_last.before[i]
            /\ buf.buffer = <<>>)
    /\ [][BufGetAll => buf'.buffer = <<>> /\ buf_last'.before = buf.buffer]_vars

\* after put(a), put(b), put(c) evicted a, get_all() has returned b + c
C11_GetAllAfterEviction ==
    /\ buf_last.op = "get_all"
    /\ ~buf.closed
    /\ buf_last.before = <<Bytes(2, 2), Bytes(3, 2)>>
    /\ buf_last.returned = <<<<2, 2>>, <<3, 2>>>>
    /\ buf.buffer = <<>>

(* C12: once close() has returned the buffer is empty, and a closed empty *)
(* buffer stays empty whatever is called on it: a put() that ran between   *)
(* the two statements of close() or after it inserts nothing.              *)
C12_ClosedStaysEmpty ==
    /\ []((buf.closed /\ ~buf_closer) => buf.buffer = <<>>)
    /\ []((buf_last.op = "put" /\ buf_last.was_closed) => buf.buffer = buf_last.before)
    /\ [][(buf.closed /\ buf.buffer = <<>>) => (buf'.closed /\ buf'.buffer = <<>>)]_vars

\* a put() made after close() returned, on the emptied buffer
C12_PutAfterClose ==
    /\ buf_last.op = "put"
    /\ buf_last.was_closed
    /\ ~buf_closer
    /\ buf_last.data = Bytes(1, 2)
    /\ buf.buffer = <<>>

(* C13: every put() that inserts a chunk sets the data-available signal   *)
(* (or has handed the setting to the event loop), whichever thread it is   *)
(* made from; a get_async() that waits while the buffer holds a chunk has  *)
(* the signal set or on its way; and get_async() returns what get() would. *)
C13_GetAsyncSignalled ==
    /\ (buf_last.op = "put" /\ ~buf_last.was_closed) => (buf.event \/ buf.scheduled)
    /\ (buf_waiter /\ buf.buffer # <<>>) => (buf.event \/ buf.scheduled)
    /\ buf_last.op \in {"get_async_woken", "get_async_timeout"} =>
          buf_last.returned = (IF buf_last.before # <<>> THEN Head(buf_last.before) ELSE <<>>)

(***************************************************************************)
(* PROPERTIES of the format transforms.                                    *)
(***************************************************************************)
\* the calls made so far, and the calls of one transform that returned
Calls == {conv_calls[i] : i \in 1..Len(conv_calls)}
ReturnedCalls(op) == {c \in Calls : c.op = op /\ ~c.raised}

\* q without a trailing sample that has no partner
WholeFrames(q) == SubSeq(q, 1, 2 * (Len(q) \div 2))

AllZero(q) == \A i \in 1..Len(q) : q[i] = 0

(* C14: neither transform ever raises; given bytes that end in a partial  *)
(* sample (agent to room) or a partial stereo frame (room to agent) it     *)
(* returns the conversion of the whole samples or frames before it.        *)
C14_TransformsNeverRaise ==
    \A c \in Calls :
        /\ ~c.raised
        /\ c.op = "to_discord" =>
              c.output = convert_to_discord_pcm(Pcm(c.input.samples)).audio
        /\ c.op = "to_gemini" =>
              c.output = convert_to_gemini_pcm(Pcm(WholeFrames(c.input.samples))).audio

C17_AverageAndDecimate ==
    \A c \in ReturnedCalls("to_gemini") :
        LET in == c.input.samples
            out == c.output.samples
            F == Len(in) \div 2
            r == DISCORD_SAMPLE_RATE \div GEMINI_INPUT_SAMPLE_RATE
        IN  /\ c.output.extra = 0
            /\ 3 * Len(out) >= F /\ 3 * Len(out) < F + 3
            /\ \A j \in 1..Len(out) :
                  LET f == r * (j - 1) + 1
                      sum == in[2 * f - 1] + in[2 * f]
                  IN  2 * out[j] <= sum /\ sum <= 2 * out[j] + 1
            /\ in = Ramp(12, 10, 10) => out = <<15, 75>>

\* the 6 frames of the example have been converted
C17_ExampleDecimated ==
    /\ conv_calls # <<>>
    /\ conv_calls[1].op = "to_gemini"
    /\ conv_calls[1].input = Pcm(<<10, 20, 30, 40, 50, 60, 70, 80, 90, 100, 110, 120>>)
    /\ conv_calls[1].output = Pcm(<<15, 75>>)

\* the round trips made: a room-to-agent call on whole frames of silence,
\* followed by an agent-to-room call on what it returned
SilenceRoundTrips ==
    IF /\ Len(conv_calls) = 2
       /\ conv_calls[1].op = "to_gemini"
       /\ conv_calls[2].op = "to_discord"
       /\ ~conv_calls[1].raised
       /\ AllZero(conv_calls[1].input.samples)
    THEN {[S |-> PcmLen(conv_calls[1].input), back |-> conv_calls[2]]}
    ELSE {}

(* C18 as stated: a round trip of S bytes of silence returns silence      *)
(* whose length differs from S by at most one stereo frame (4 bytes).      *)
C18_SilenceRoundTripKeepsLength ==
    \A t \in SilenceRoundTrips :
        /\ ~t.back.raised
        /\ AllZero(t.back.output.samples)
        /\ PcmLen(t.back.output) - t.S \in -4..4

(* C18, amended: a round trip of F >= 1 frames of silence returns         *)
(* 2 * ceil(F/3) - 1 frames of silence, never more than F; no frames give  *)
(* no bytes.                                                               *)
C18_SilenceRoundTripShrinks ==
    \A t \in SilenceRoundTrips :
        LET F == t.S \div 4
            back == PcmLen(t.back.output) \div 4
        IN  /\ ~t.back.raised
            /\ AllZero(t.back.output.samples)
            /\ PcmLen(t.back.output) = 4 * back
            /\ back = (IF F = 0 THEN 0 ELSE 2 * ((F + 2) \div 3) - 1)
            /\ back <= F

\* 6 frames of silence have come back as 3
C18_SixFramesBecomeThree ==
    \E t \in SilenceRoundTrips :
        /\ t.S = 24
        /\ PcmLen(t.back.output) = 12
        /\ AllZero(t.back.output.samples)

(***************************************************************************)
(* More properties of the audio path.                                      *)
(***************************************************************************)
(* C19: a step of output() made while the interface is not running leaves *)
(* the outbound queue as it is; a step made while it is running appends    *)
(* the converted chunk, and nothing else, at the tail of the queue (after  *)
(* the oldest chunk made room when the queue was full).                    *)
C19_OutputAppendsWhileRunning ==
    [][\A audio \in GeminiChunks :
          Output(audio) =>
              IF ~is_running
              THEN output_buffer' = output_buffer
              ELSE output_buffer'.buffer =
                       DequeAppend(output_buffer.buffer,
                                   convert_to_discord_format(audio), MaxSize)]_vars

(* C20: a step of receive_discord_audio(pcm) made while the interface is  *)
(* running with a callback registered invokes the callback exactly once,   *)
(* with the converted chunk; made otherwise it invokes nothing; no step of *)
(* it changes the interface, its queues or the audio source.               *)
C20_ReceiveInvokesCallbackOnce ==
    [][\A pcm_data \in DiscordChunks :
          Receive(pcm_data) =>
              /\ IF is_running /\ input_callback
                 THEN /\ last'.callbacks = 1
                      /\ last'.frame = convert_to_gemini_format(pcm_data)
                 ELSE last'.callbacks = 0
              /\ UNCHANGED <<is_running, input_callback, output_buffer, input_buffer,
                             is_playing, remaining_data, reader>>]_vars

(* C21: every read() of a playing source hands on the bytes it holds in   *)
(* FIFO order, losing and duplicating none: it starts from the carried     *)
(* remainder, every chunk it dequeues is appended behind what it holds,    *)
(* and when it returns, the frame is the first FRAME_SIZE bytes of what it *)
(* holds (followed by zeros when there are fewer, all zeros when there are *)
(* none) and the carried remainder is exactly the bytes behind the frame.  *)
C21_ReadKeepsFifoOrder ==
    [][/\ (ReadBegin /\ is_playing) =>
             LET held == remaining_data IN
             IF last'.op = "read"
             THEN /\ Length(held) >= FRAME_SIZE
                  /\ last'.frame = Take(held, FRAME_SIZE)
                  /\ Concat(last'.frame, remaining_data') = held
             ELSE /\ reader'.data = held
                  /\ remaining_data' = remaining_data
       /\ ReadPull =>
             LET held == IF output_buffer.buffer = <<>> THEN reader.data
                         ELSE Concat(reader.data, Head(output_buffer.buffer))
                 missing == FRAME_SIZE - Length(held)
             IN  /\ output_buffer.buffer # <<>> =>
                        output_buffer'.buffer = Tail(output_buffer.buffer)
                 /\ IF last'.op = "read"
                    THEN /\ Length(last'.frame) = FRAME_SIZE
                         /\ Concat(last'.frame, remaining_data') =
                               (IF missing > 0 THEN Concat(held, Bytes(0, missing))
                                ELSE held)
                         /\ missing > 0 => remaining_data' = <<>>
                         /\ missing > 0 => output_buffer.buffer = <<>>
                    ELSE /\ reader'.data = held
                         /\ Length(held) < FRAME_SIZE
                         /\ remaining_data' = remaining_data]_vars

\* a read() has returned a frame cut from a longer run of chunk bytes and
\* carries the bytes behind it
C21_FrameCutAndCarried ==
    /\ last.op = "read"
    /\ last.playing
    /\ last.frame = Bytes(2, FRAME_SIZE)
    /\ remaining_data = Bytes(2, 7996 - FRAME_SIZE)
    /\ ~interrupted

(***************************************************************************)
(* PROPERTIES of the websocket client.                                     *)
(***************************************************************************)
(* C22: connect() returns True or False and raises nothing; when it       *)
(* succeeds the client is connected, the receive task exists and the       *)
(* connected callback has fired; when it fails the error callback has      *)
(* fired, the client is not connected and has no receive task.             *)
C22_ConnectNeverRaises ==
    [][/\ WsConnectOk =>
             /\ ws_last'.returned = "True"
             /\ ws_last'.cbs = {Fired("connected", <<>>)}
             /\ ws'.is_connected
             /\ ws.task = "none" /\ ws'.task = "created"
       /\ WsConnectFails =>
             /\ ws_last'.returned = "False"
             /\ ws_last'.cbs = {Fired("error", <<>>)}
             /\ ~ws'.is_connected
             /\ ws'.task = "none"]_vars

\* a connect() has failed
C22_ConnectFailed ==
    /\ ws_last.op = "connect"
    /\ ws_last.returned = "False"
    /\ Fired("error", <<>>) \in ws_last.cbs
    /\ ws = NewClient

(* C23: once a connection has been established the disconnected callback  *)
(* never fires more than once, and it has fired once when the receive      *)
(* task has ended and no disconnect() is in flight.                        *)
C23_DisconnectedFiresOnce ==
    ws.transport # "none" =>
        /\ ws_fired <= 1
        /\ (ws.task = "done" /\ ws_calls.disconnect = "idle") => ws_fired = 1

(* C24: a disconnect() begun on a client that a finished disconnect()     *)
(* left disconnected changes nothing, closes no socket and fires no        *)
(* callback.                                                               *)
C24_DisconnectIdempotent ==
    [][(/\ WsDisconnectBegin
        /\ ws_calls.count >= 1
        /\ ~ws.is_connected /\ ~ws.handle /\ ws.task \in {"none", "done"})
       => /\ ws' = ws
          /\ ws_fired' = ws_fired
          /\ ws_last'.closes = 0
          /\ ws_last'.cbs = {}]_vars

(* C25: the client is connected only between a successful connect() and  *)
(* the disconnect() or the exit of the receive loop that follows it, and   *)
(* a send_audio, send_text or interrupt made while it is not connected     *)
(* puts nothing on the socket and invokes nothing.                         *)
C25_NoSendUnlessConnected ==
    /\ [](ws.is_connected => (ws.handle /\ ws.task \in {"created", "running"}))
    /\ [][\A kind \in {"audio", "text", "interrupt"}, fails \in BOOLEAN :
             (WsSend(kind, fails) /\ ~ws.is_connected) =>
                 /\ ws_last'.sent = <<>>
                 /\ ws_last'.cbs = {}
                 /\ ws_last'.returned = "None"]_vars

\* send_audio after the peer closed the socket and the loop exited: the
\* socket handle is still set, and nothing was sent or reported
C25_SendAfterRemoteClose ==
    /\ ws_last.op = "audio"
    /\ ws_last.sent = <<>>
    /\ ws_last.returned = "None"
    /\ ws.handle
    /\ ws.transport = "closed"
    /\ ws.task = "done"
    /\ ws_calls.count = 0

(* C26: when the socket's send fails inside send_audio, send_text or      *)
(* interrupt, the error callback is invoked and the client is left as it   *)
(* was.                                                                    *)
C26_SendFailureReported ==
    [][\A kind \in {"audio", "text", "interrupt"} :
          (WsSend(kind, TRUE) /\ ws_last'.returned = "failed") =>
              /\ Fired("error", <<>>) \in ws_last'.cbs
              /\ ws' = ws]_vars

C28_BadMessageNotFatal ==
    /\ []((ws.task = "running" /\ ws.transport = "open") =>
             \A msg \in Messages : ENABLED WsReceive(msg, FALSE))
    /\ [][\A msg \in Messages :
             (WsReceive(msg, FALSE) /\ msg.type \in {"malformed", "scalar", "user_transcript"})
                 => /\ ws' = ws
                    /\ ws'.task = "running"
                    /\ ws_last'.op = "message"
                    /\ ws_last'.cbs = {}
                    /\ UNCHANGED <<ws_calls, ws_fired>>]_vars

\* audio has been delivered right after an unparseable message
C28_AudioAfterMalformed ==
    /\ ws_last.op = "message"
    /\ ws_last.after = "malformed"
    /\ ws_last.msg.type = "audio"
    /\ ws_last.cbs = {Fired("audio", <<"ABC">>)}
    /\ ws.is_connected

(***************************************************************************)
(* PROPERTIES of the Gemini agent.                                         *)
(***************************************************************************)
(* C29: when start_session() returns False the agent is not active, its   *)
(* audio interface is not running and no session task is left running.     *)
C29_FailedStartLeavesNothing ==
    [][GaStartTimeout =>
          /\ ga_calls'.started = "False"
          /\ ~ga'.is_active
          /\ ~ga'.interface_running
          /\ \A k \in SessionTasks : ga_task'[k].pc \in {"none", "done"}]_vars

\* both loops of session task k have ended, or never existed
LoopsEnded(k) == ga_loops[k].send \in {"none", "done"} /\ ga_loops[k].recv \in {"none", "done"}

(* C30: while the agent is active with a session, both loops of that      *)
(* session are alive; the session handle is cleared, and end_session()     *)
(* returns, only when both loops have ended; and while end_session()       *)
(* waits, some task can take a step.                                       *)
C30_LoopsLiveAndAwaited ==
    /\ []((ga.is_active /\ ga.session # 0) =>
             /\ ga_loops[ga.session].send \in {"created", "running"}
             /\ ga_loops[ga.session].recv \in {"created", "running"})
    /\ [](ga_calls.end = "awaiting" => ENABLED (GaBackground \/ GaEndAwaited))
    /\ [][/\ (ga.session # 0 /\ ga'.session = 0) => LoopsEnded(ga.session)
          /\ GaEndAwaited => LoopsEnded(ga_calls.awaits)]_vars

(***************************************************************************)
(* PROPERTIES of the last ten claims.                                      *)
(***************************************************************************)
(* C31: an output() during which interrupt() ran does not fail; its put,  *)
(* made after the interrupt, leaves exactly its own chunk in the outbound  *)
(* queue, and an interrupt leaves nothing; and neither waits: the steps of *)
(* an output in flight and interrupt() can always run.                     *)
C31_InterruptSerialisedWithOutput ==
    /\ [](~(writer.result = "raised" /\ writer.cleared))
    /\ [](writer.pc = "put" => ENABLED (\E in_loop \in BOOLEAN : OutputPut(in_loop)))
    /\ [](ENABLED Interrupt)
    /\ [][/\ \A in_loop \in BOOLEAN :
                (OutputPut(in_loop) /\ writer.cleared) =>
                    output_buffer'.buffer = <<writer.chunk>>
          /\ Interrupt => output_buffer'.buffer = <<>>]_vars

(* C32: read() never waits: while it is in its loop the next get() can    *)
(* always run, whatever the queue holds; every step of the loop makes one  *)
(* get(), which takes the chunk at the head of the queue or finds none;    *)
(* the loop is entered only when less than a frame is carried, and it ends *)
(* exactly when the queue was found empty or a full frame is gathered;     *)
(* and every read() that is in its loop returns, also while output() puts  *)
(* chunks between its steps.                                               *)
C32_ReadNeverWaits ==
    /\ [](reader.pc = "pull" => (ENABLED ReadPull /\ ~FrameReady(reader.data)))
    /\ [][ReadPull =>
             /\ output_buffer' = AudioBuffer_get(output_buffer)
             /\ (reader'.pc = "idle") <=>
                    \/ output_buffer.buffer = <<>>
                    \/ Length(reader.data) + Length(Head(output_buffer.buffer)) >= FRAME_SIZE]_vars
    /\ (reader.pc = "pull") ~> (reader.pc = "idle")

\* a read() in its loop has pulled a chunk, needs more, and output() has just
\* put a chunk beside it
C32_OutputDuringRead ==
    /\ reader.pc = "pull"
    /\ Length(reader.data) > Length(remaining_data)
    /\ last.op = "output"
    /\ output_buffer.buffer # <<>>

(* C33: the chunks waiting in _audio_send_queue never number more than    *)
(* the capacity of a queue of the audio interface, and a chunk arriving at *)
(* a full queue takes the place of the oldest one.                         *)
C33_SendQueueBounded ==
    /\ [](Len(ga_queue.items) <= MaxSize)
    /\ [][(GaHandleInputAudio /\ ga.is_active) =>
             ga_queue'.items = DequeAppend(ga_queue.items, ga_queue.puts + 1, MaxSize)]_vars

(* C37: at no time are two session tasks of one agent running.            *)
C37_OneSessionTask ==
    \A j, k \in SessionTasks :
        (ga_task[j].pc \notin {"none", "done"} /\ ga_task[k].pc \notin {"none", "done"}) => j = k

\* C34: in every reachable state, a join still awaiting the voice connection or
\* the start of the AI session and overlapped by a leave of the same guild
\* included, every guild registered in _active_conversations is registered in
\* _voice_connections too.
C34_ConversationHasConnection ==
    \A g \in Guilds : Has(active_conversations, g) => Has(voice_connections, g)

\* C35: a participant who leaves a voice channel other than the one the
\* session of the guild is connected to never tears that session down, not
\* even when the channel they left is empty now: the connection and the agent
\* stay registered and no leave of the guild is begun.
LeavesOtherChannel(m) ==
    /\ loc[m] # None
    /\ loc'[m] = None
    /\ \E ch \in channels \ {loc[m]} : SessionIn(GuildOf(loc[m]), ch)
C35_LeaveElsewhereKeepsSession ==
    [][\A m \in Members :
          LeavesOtherChannel(m) =>
              /\ voice_connections' = voice_connections
              /\ active_conversations' = active_conversations
              /\ agentState' = agentState]_vars

\* C36: every agent whose session the bot started (start_session returned)
\* is still registered in _active_conversations or has had end_session
\* called on it; none is dropped from the registry, say overwritten by a
\* later join of the same guild, without being ended.
InRegistry(a) == \E g \in DOMAIN active_conversations : active_conversations[g] = a
C36_StartedAgentRegisteredOrEnded ==
    \A a \in AgentIds : agentState[a] \in {"active", "failed"} => InRegistry(a)

\* C38: a participant who moves directly from one voice channel to another
\* changes nothing of the session manager: no connection and no agent is
\* registered or dropped, no agent or connection changes state, no handler
\* is begun and the greeted set stays as it was, also when the move leaves
\* the channel of the session without any participant but the bot.
Moved(m) == loc[m] # None /\ loc'[m] # None /\ loc'[m] # loc[m]
C38_MoveChangesNoSessionState ==
    [][\A m \in Members :
          Moved(m) => UNCHANGED <<voice_connections, active_conversations, greeted_users,
                                  guildVoice, vcState, vcChannel, agentState, agentGuild,
                                  tasks>>]_vars
C38_MoveEmptiedSessionChannel ==
    /\ outcome = "moved"
    /\ \E m \in greeted_users :
          /\ loc[m] # None
          /\ \E ch \in channels \ {loc[m]} :
                SessionIn(GuildOf(loc[m]), ch) /\ ChannelEmptyExceptBot(ch, loc)

\* C39: stop() is permanent for the two queues. Once a stop() has returned
\* (the buffers are closed and no stop() is inside close()), the queue towards
\* the room and the queue from the room are empty; closed and empty they stay
\* so in every later step, start() never opens them again, and an output()
\* made after a later start() enqueues nothing.
StopReturned == output_buffer.closed /\ input_buffer.closed /\ ~closer
QueuesShut ==
    /\ output_buffer.closed /\ output_buffer.buffer = <<>>
    /\ input_buffer.closed /\ input_buffer.buffer = <<>>
C39_StopIsPermanent ==
    /\ [](StopReturned => QueuesShut)
    /\ [][QueuesShut => QueuesShut']_vars
    /\ [][(output_buffer.closed /\ \E audio \in GeminiChunks : Output(audio))
              => output_buffer'.buffer = output_buffer.buffer]_vars
C39_OutputAfterRestart ==
    /\ StopReturned
    /\ is_running
    /\ last.op = "output"
    /\ outputs > 1
    /\ output_buffer.buffer = <<>>

\* C40: for signed 16-bit input samples every interpolated sample of the
\* upsampling lies between its two neighbours, both included, and every
\* stereo average lies between left and right, both included; so every
\* sample a transform returns is a signed 16-bit value and packing it
\* cannot overflow.
InInt16(x) == x >= -32768 /\ x <= 32767
Between(x, a, b) == (a <= x /\ x <= b) \/ (b <= x /\ x <= a)
AllInt16(samples) == \A i \in 1..Len(samples) : InInt16(samples[i])
\* the output of _convert_to_discord_format holds sample i at 4i-3 and 4i-2
\* and the sample interpolated after it at 4i-1 and 4i
InterpolatedBetween(input, output) ==
    \A i \in 1..(Len(input) - 1) :
        /\ Between(output[4 * i - 1], input[i], input[i + 1])
        /\ output[4 * i] = output[4 * i - 1]
\* every frame's average, kept by the downsampling or not, and the samples
\* returned: sample j is the average of frame 3j-2
AveragesBetween(input, output) ==
    /\ \A k \in 1..(Len(input) \div 2) :
          Between(MonoAverage(input)[k], input[2 * k - 1], input[2 * k])
    /\ \A j \in 1..Len(output) :
          Between(output[j], input[6 * j - 5], input[6 * j - 4])
C40_TransformsStayInRange ==
    \A c \in 1..Len(conv_calls) :
        LET call == conv_calls[c] IN
        (~call.raised /\ AllInt16(call.input.samples)) =>
            /\ AllInt16(call.output.samples)
            /\ call.op = "to_discord" =>
                   InterpolatedBetween(call.input.samples, call.output.samples)
            /\ call.op = "to_gemini" =>
                   AveragesBetween(call.input.samples, call.output.samples)
C40_ExtremesInterpolatedAndAveraged ==
    /\ Len(conv_calls) = 2
    /\ conv_calls[1].op = "to_discord" /\ ~conv_calls[1].raised
    /\ \E i \in 1..(Len(conv_calls[1].input.samples) - 1) :
          /\ conv_calls[1].input.samples[i] = -32768
          /\ conv_calls[1].input.samples[i + 1] = 32767
    /\ conv_calls[2].op = "to_gemini" /\ ~conv_calls[2].raised
    /\ conv_calls[2].output.samples # <<>>

====
